---- MODULE Spec2Model ----
(***************************************************************************)
(* Batch generation orchestrator of nano_banana_webui.                     *)
(*                                                                         *)
(* Three batch loops are modelled, one behaviour running one of them:      *)
(*   FusedService    generateFusedImages    src/services/geminiService.ts  *)
(*   FusedPart002    generateFusedImages    src/unnamed/part_002           *)
(*   AdjustedPart002 generateAdjustedImages src/unnamed/part_002           *)
(* JavaScript runs the code between two awaits without interruption, so    *)
(* every action is one such segment: it starts where an awaited promise    *)
(* settles and runs up to the next await (or to the return / throw).       *)
(*                                                                         *)
(* Strings are sequences of atoms (short ASCII stand-ins for the literal   *)
(* texts of the source); template concatenation is \o, and                 *)
(* String.prototype.includes is Includes.                                  *)
(***************************************************************************)
EXTENDS Integers, Sequences, FiniteSets, TLC

VARIABLES impl, count, variationIntensity, hasOnProgress, apiKey, randoms,
          pc, i, results, progress, calls, log, inFlight, pending,
          aiInstance, error, cancelRequested, clientLog, constructions, self, other,
          input, output, decade, panel, viewer

vars == <<impl, count, variationIntensity, hasOnProgress, apiKey, randoms,
          pc, i, results, progress, calls, log, inFlight, pending,
          aiInstance, error, cancelRequested, clientLog, constructions, self, other,
          input, output, decade, panel, viewer>>

params == <<impl, count, variationIntensity, hasOnProgress, apiKey, randoms, self, other>>

\* what is outside the batch loops: the argument and the value of a function
\* that is applied on its own, the state of generateDecadeImage, of the
\* fusion panel and of the pop-up viewer
components == <<input, output, decade, panel, viewer>>

\* none of them is in use
NoComponents ==
    /\ input = "none"
    /\ output = "none"
    /\ decade = "none"
    /\ panel = "none"
    /\ viewer = "none"

(***************************************************************************)
(* Bounds                                                                  *)
(***************************************************************************)
MaxCount == 3

(***************************************************************************)
(* The three batch functions                                               *)
(***************************************************************************)
FusedService == "generateFusedImages@services/geminiService.ts"
FusedPart002 == "generateFusedImages@part_002"
AdjustedPart002 == "generateAdjustedImages@part_002"

Impls == {FusedService, FusedPart002, AdjustedPart002}

Intensities == {"subtle", "moderate", "dramatic", "unrecognized"}

(***************************************************************************)
(* Texts                                                                   *)
(***************************************************************************)
Includes(message, atom) == \E k \in 1..Len(message) : message[k] = atom

\* JSON.parse(message) succeeds
IsJson(message) ==
    message \in {<<"{error:{message:API key not valid}}">>,
                 <<"{error:{message:quota exceeded}}">>,
                 <<"{}">>,
                 <<"{status:", "API key not valid", "}">>,
                 <<"{status:", "xhr error", "}">>}

\* errorObj?.error?.message of the parsed text (<<>>: absent)
JsonErrorMessage(message) ==
    IF message = <<"{error:{message:API key not valid}}">> THEN <<"API key not valid">>
    ELSE IF message = <<"{error:{message:quota exceeded}}">> THEN <<"quota exceeded">>
    ELSE <<>>

\* a thrown value: handled = it was built by handleApiError
Err(message) == [handled |-> FALSE, hasMessage |-> TRUE, message |-> message]

NoErr == [handled |-> FALSE, hasMessage |-> FALSE, message |-> <<"none">>]

\* a thrown value that has no message property
NoMessageErr == [handled |-> FALSE, hasMessage |-> FALSE, message |-> <<>>]

\* what reading e.message.includes(...) of a value without message throws
TypeErr == Err(<<"TypeError: Cannot read properties of undefined">>)

handleApiError(e, action) ==
    LET byDefault == <<"error during", action, ":">> \o
                     (IF e.hasMessage /\ e.message # <<>> THEN e.message
                      ELSE <<"unknown communication error">>)
        message ==
            IF e.hasMessage /\ IsJson(e.message)
            THEN IF JsonErrorMessage(e.message) # <<>>
                 THEN <<"error during", action, ":">> \o JsonErrorMessage(e.message)
                 ELSE byDefault
            ELSE IF e.hasMessage /\ Includes(e.message, "API key not valid")
                 THEN <<"system API key invalid">>
            ELSE IF e.hasMessage /\ Includes(e.message, "xhr error")
                 THEN <<"communication with AI service failed">>
            ELSE byDefault
    IN [handled |-> TRUE, hasMessage |-> TRUE, message |-> message]

(***************************************************************************)
(* getGoogleAI: the lazily created client.  ctorOk is whether               *)
(* new GoogleGenAI({apiKey}) returns (TRUE) or throws (FALSE).              *)
(***************************************************************************)
ApiKeys == {"missing", "invalid", "valid"}

\* the value of aiInstance after the call
\* a getGoogleAI whose failed construction leaves the instance assigned
getGoogleAI_instance_Poisoned(instance, key, ctorOk) ==
    IF instance THEN TRUE
    ELSE IF key = "missing" THEN FALSE
    ELSE TRUE

getGoogleAI_instance(instance, key, ctorOk) ==
    IF instance THEN TRUE
    ELSE IF key = "missing" THEN FALSE
    ELSE ctorOk

\* what the call throws (NoErr: it returns the client)
getGoogleAI_throws(instance, key, ctorOk) ==
    IF instance THEN NoErr
    ELSE IF key = "missing" THEN Err(<<"API key not found">>)
    ELSE IF ctorOk THEN NoErr
    ELSE Err(<<"failed to initialise AI service", "constructor error">>)

\* the number of clients built so far, after the call: new GoogleGenAI ran
\* and returned when aiInstance went from null to set
Constructed(instance, key, ctorOk, built) ==
    IF ~instance /\ getGoogleAI_instance(instance, key, ctorOk) THEN built + 1 ELSE built

\* what one call of getGoogleAI did: threw, or returned the client that was
\* built as the instance-th one
ClientEntry(instance, key, ctorOk, built) ==
    [thrown |-> getGoogleAI_throws(instance, key, ctorOk),
     instance |-> IF getGoogleAI_throws(instance, key, ctorOk) # NoErr THEN 0
                  ELSE Constructed(instance, key, ctorOk, built),
     batch |-> self]

(***************************************************************************)
(* What ai.models.generateContent settles with: a rejection (thrown) or a   *)
(* response, of which the fields callImageEditingModel inspects are kept.   *)
(***************************************************************************)
Rejection(e) ==
    [rejects |-> TRUE, thrown |-> e, hasCandidate |-> FALSE, finishReason |-> "STOP",
     hasContent |-> FALSE, partsIsArray |-> FALSE, parts |-> <<>>]

Response(hasCandidate, finishReason, hasContent, partsIsArray, parts) ==
    [rejects |-> FALSE, thrown |-> NoErr, hasCandidate |-> hasCandidate,
     finishReason |-> finishReason, hasContent |-> hasContent,
     partsIsArray |-> partsIsArray, parts |-> parts]

IsInlineData(part) == part \in {"inlineData:A", "inlineData:B"}

RECURSIVE FirstInlineData(_)
FirstInlineData(parts) ==
    IF parts = <<>> THEN "none"
    ELSE IF IsInlineData(Head(parts)) THEN Head(parts)
    ELSE FirstInlineData(Tail(parts))

\* a callImageEditingModel that looks at the content before the finish reason
ClassifyResponse_ContentFirst(r) ==
    IF r.rejects THEN [ok |-> FALSE, url |-> <<>>, thrown |-> r.thrown]
    ELSE IF ~r.hasCandidate
      THEN [ok |-> FALSE, url |-> <<>>, thrown |-> Err(<<"no candidates in response">>)]
    ELSE IF ~r.hasContent
      THEN [ok |-> FALSE, url |-> <<>>,
            thrown |-> Err(<<"no content in response, finish reason", r.finishReason>>)]
    ELSE IF ~r.partsIsArray
      THEN [ok |-> FALSE, url |-> <<>>, thrown |-> Err(<<"malformed response: no parts array">>)]
    ELSE IF FirstInlineData(r.parts) # "none"
      THEN [ok |-> TRUE, url |-> <<"data:", FirstInlineData(r.parts)>>, thrown |-> NoErr]
    ELSE IF r.finishReason = "SAFETY"
      THEN [ok |-> FALSE, url |-> <<>>, thrown |-> Err(<<"blocked by safety filter">>)]
    ELSE IF r.finishReason = "MAX_TOKENS"
      THEN [ok |-> FALSE, url |-> <<>>, thrown |-> Err(<<"response truncated">>)]
    ELSE IF r.parts # <<>> /\ Head(r.parts) = "text"
      THEN [ok |-> FALSE, url |-> <<>>,
            thrown |-> Err(<<"Model responded with text", "instead of an image">>)]
    ELSE [ok |-> FALSE, url |-> <<>>, thrown |-> Err(<<"AI did not return an image">>)]
\* the body of the try block after the await: ok with the data URI, or the
\* value thrown
ClassifyResponse(r) ==
    IF r.rejects THEN [ok |-> FALSE, url |-> <<>>, thrown |-> r.thrown]
    ELSE IF ~r.hasCandidate
      THEN [ok |-> FALSE, url |-> <<>>, thrown |-> Err(<<"no candidates in response">>)]
    ELSE IF r.finishReason = "SAFETY"
      THEN [ok |-> FALSE, url |-> <<>>, thrown |-> Err(<<"blocked by safety filter">>)]
    ELSE IF r.finishReason = "MAX_TOKENS"
      THEN [ok |-> FALSE, url |-> <<>>, thrown |-> Err(<<"response truncated">>)]
    ELSE IF ~r.hasContent
      THEN [ok |-> FALSE, url |-> <<>>,
            thrown |-> Err(<<"no content in response, finish reason", r.finishReason>>)]
    ELSE IF ~r.partsIsArray
      THEN [ok |-> FALSE, url |-> <<>>, thrown |-> Err(<<"malformed response: no parts array">>)]
    ELSE IF FirstInlineData(r.parts) # "none"
      THEN [ok |-> TRUE, url |-> <<"data:", FirstInlineData(r.parts)>>, thrown |-> NoErr]
    ELSE IF r.parts # <<>> /\ Head(r.parts) = "text"
      THEN [ok |-> FALSE, url |-> <<>>,
            thrown |-> Err(<<"Model responded with text", "instead of an image">>)]
    ELSE [ok |-> FALSE, url |-> <<>>, thrown |-> Err(<<"AI did not return an image">>)]

\* the catch block of callImageEditingModel
RethrowOrHandle(e, action) ==
    IF ~e.hasMessage THEN TypeErr
    ELSE IF Includes(e.message, "Model responded with text") THEN e
    ELSE handleApiError(e, action)

\* callImageEditingModel once generateContent has settled with r
callImageEditingModel(r, action) ==
    LET c == ClassifyResponse(r)
    IN IF c.ok THEN c ELSE [c EXCEPT !.thrown = RethrowOrHandle(c.thrown, action)]

(***************************************************************************)
(* Per-call parameters                                                     *)
(***************************************************************************)
IsFused == impl \in {FusedService, FusedPart002}

\* the action text of call j: `合成 ${j+1}/${count}` / `调整 ${j+1}/${count}`
ActionLabel(j) ==
    (IF IsFused THEN "fuse " ELSE "adjust ") \o ToString(j + 1) \o "/" \o ToString(count)

\* the action text of the outer catch: '批量合成' / '批量调整'
BatchLabel == IF IsFused THEN "batch fuse" ELSE "batch adjust"

\* variationSets[variationIntensity] || variationSets.moderate
VariationKey(intensity) ==
    IF intensity \in {"subtle", "moderate", "dramatic"} THEN intensity ELSE "moderate"

\* variations.length in geminiService.ts: 8 subtle, 12 moderate, 12 dramatic
VariationsLengthService(key) == IF key = "subtle" THEN 8 ELSE 12

\* variations.length in part_002, both functions: 8 in every list
VariationsLengthPart002(key) == 8

VariationsLength(f, key) ==
    IF f = FusedService THEN VariationsLengthService(key) ELSE VariationsLengthPart002(key)

\* a selection that indexes the list with j itself
Descriptor_NoWrap(f, intensity, j) == <<VariationKey(intensity), j>>

\* variations[j % variations.length], as <<list, position>>
Descriptor(f, intensity, j) ==
    <<VariationKey(intensity), j % VariationsLength(f, VariationKey(intensity))>>

\* Temperatures are counted in tenths.
\* geminiService.ts: switch (variationIntensity) { baseTemp = ...; tempRange = ... }
BaseTempService(intensity) ==
    IF intensity = "subtle" THEN 6 ELSE IF intensity = "dramatic" THEN 8 ELSE 7

TempRangeService(intensity) ==
    IF intensity = "subtle" THEN 2 ELSE IF intensity = "dramatic" THEN 5 ELSE 3

\* part_002, generateFusedImages: 0.4 + i * 0.2 / ..., 0.7 + i * 0.3 / ..., 0.5 + i * 0.3 / ...
BaseTempPart002(intensity) ==
    IF intensity = "subtle" THEN 4 ELSE IF intensity = "dramatic" THEN 7 ELSE 5

TempRangePart002(intensity) == IF intensity = "subtle" THEN 2 ELSE 3

\* part_002, generateAdjustedImages: the same temperature for every call
TemperatureAdjusted(intensity) ==
    IF intensity = "subtle" THEN 5 ELSE IF intensity = "moderate" THEN 8 ELSE 10

\* of the fused loops
BaseTemp(f, intensity) ==
    IF f = FusedService THEN BaseTempService(intensity) ELSE BaseTempPart002(intensity)

TempRange(f, intensity) ==
    IF f = FusedService THEN TempRangeService(intensity) ELSE TempRangePart002(intensity)

Max(a, b) == IF a >= b THEN a ELSE b

Min(a, b) == IF a <= b THEN a ELSE b

(***************************************************************************)
(* JavaScript numbers.  The temperature is computed in IEEE 754 binary64:   *)
(* a number is m * 2^e with m a significand of 53 bits (most significant    *)
(* first, the first one 1) or zero (no bits), and every operation returns   *)
(* the exact result rounded to the nearest such number, ties to even.  The  *)
(* values here are positive and far from overflow and underflow.            *)
(***************************************************************************)
DoublePrecision == 53

\* fraction bits a quotient is computed to before it is rounded
QuotientBits == 64

Zeros(n) == [k \in 1..n |-> 0]

RECURSIVE Strip(_)
Strip(bits) ==
    IF bits = <<>> THEN <<>>
    ELSE IF Head(bits) = 1 THEN bits
    ELSE Strip(Tail(bits))

RECURSIVE IntBits(_)
IntBits(k) == IF k = 0 THEN <<>> ELSE IntBits(k \div 2) \o <<k % 2>>

\* the operations below work on Chunk bits at a time
Chunk == 12

RECURSIVE BitsVal(_)
BitsVal(bits) ==
    IF bits = <<>> THEN 0 ELSE 2 * BitsVal(SubSeq(bits, 1, Len(bits) - 1)) + bits[Len(bits)]

\* the n low bits of v
ValBits(v, n) == [k \in 1..n |-> (v \div (2 ^ (n - k))) % 2]

\* a + b + carry, a and b of the same length
RECURSIVE AddCarry(_, _, _)
AddCarry(a, b, carry) ==
    IF a = <<>> THEN (IF carry = 1 THEN <<1>> ELSE <<>>)
    ELSE LET n == Len(a)
             c == Min(Chunk, n)
             sum == BitsVal(SubSeq(a, n - c + 1, n)) + BitsVal(SubSeq(b, n - c + 1, n)) + carry
         IN AddCarry(SubSeq(a, 1, n - c), SubSeq(b, 1, n - c), sum \div (2 ^ c))
            \o ValBits(sum % (2 ^ c), c)

AddBits(a, b) ==
    LET n == Max(Len(a), Len(b))
    IN AddCarry(Zeros(n - Len(a)) \o a, Zeros(n - Len(b)) \o b, 0)

Increment(bits) == AddBits(bits, <<1>>)

RECURSIVE MulBits(_, _)
MulBits(bits, k) ==
    IF k = 0 THEN <<>>
    ELSE LET half == MulBits(bits, k \div 2) \o <<0>>
         IN IF k % 2 = 0 THEN half ELSE AddBits(half, bits)

\* long division of bits by d, r the remainder carried in
RECURSIVE DivBits(_, _, _)
DivBits(bits, d, r) ==
    IF bits = <<>> THEN [q |-> <<>>, r |-> r]
    ELSE LET c == Min(Chunk, Len(bits))
             r2 == r * (2 ^ c) + BitsVal(SubSeq(bits, 1, c))
             rest == DivBits(SubSeq(bits, c + 1, Len(bits)), d, r2 % d)
         IN [q |-> ValBits(r2 \div d, c) \o rest.q, r |-> rest.r]

DoubleZero == [m |-> <<>>, e |-> 0]

\* bits * 2^e, plus less than one unit of the last bit when sticky, rounded
\* to nearest, ties to even
RoundBits(bits, e, sticky) ==
    LET n == Len(bits)
        keep == SubSeq(bits, 1, DoublePrecision)
        up == /\ bits[DoublePrecision + 1] = 1
              /\ \/ sticky
                 \/ \E k \in (DoublePrecision + 2)..n : bits[k] = 1
                 \/ keep[DoublePrecision] = 1
        inc == Increment(keep)
    IN IF n = 0 THEN DoubleZero
       ELSE IF n <= DoublePrecision
       THEN [m |-> bits \o Zeros(DoublePrecision - n), e |-> e - (DoublePrecision - n)]
       ELSE IF ~up THEN [m |-> keep, e |-> e + (n - DoublePrecision)]
       ELSE IF Len(inc) = DoublePrecision THEN [m |-> inc, e |-> e + (n - DoublePrecision)]
       ELSE [m |-> SubSeq(inc, 1, DoublePrecision), e |-> e + (n - DoublePrecision) + 1]

\* the number a decimal literal of num / den denotes, e.g. 0.2 is Literal(2, 10)
Literal(num, den) ==
    LET d == DivBits(IntBits(num) \o Zeros(QuotientBits), den, 0)
    IN RoundBits(Strip(d.q), 0 - QuotientBits, d.r # 0)

\* k * x, k an integer
DoubleTimes(k, x) == RoundBits(Strip(MulBits(x.m, k)), x.e, FALSE)

\* x / d, d a positive integer
DoubleDiv(x, d) ==
    LET q == DivBits(x.m \o Zeros(QuotientBits), d, 0)
    IN RoundBits(Strip(q.q), x.e - QuotientBits, q.r # 0)

\* x + y
DoublePlus(x, y) ==
    IF x.m = <<>> THEN y
    ELSE IF y.m = <<>> THEN x
    ELSE LET e == Min(x.e, y.e)
         IN RoundBits(Strip(AddBits(x.m \o Zeros(x.e - e), y.m \o Zeros(y.e - e))), e, FALSE)

BitsLess(a, b) ==
    \E k \in 1..Len(a) : a[k] < b[k] /\ \A j \in 1..(k - 1) : a[j] = b[j]

\* x <= y
DoubleLeq(x, y) ==
    \/ x.m = <<>>
    \/ /\ y.m # <<>>
       /\ \/ x.e < y.e
          \/ x.e = y.e /\ (x.m = y.m \/ BitsLess(x.m, y.m))

\* the numbers the literals 0.0, 0.1, ... 1.0 denote
Tenths == [k \in 0..10 |-> Literal(k, 10)]

\* a ramp that runs from baseTemp + tempRange down to baseTemp
Temperature_Descending(f, intensity, j, n) ==
    IF f = AdjustedPart002
    THEN Tenths[TemperatureAdjusted(intensity)]
    ELSE DoublePlus(Tenths[BaseTemp(f, intensity)],
                    DoubleDiv(DoubleTimes(Max(n - 1, 1) - j, Tenths[TempRange(f, intensity)]),
                              Max(n - 1, 1)))

\* temperature of call j of n. The fused loops:
\* baseTemp + (j * tempRange / Math.max(n - 1, 1)); the adjusted loop: a literal
Temperature(f, intensity, j, n) ==
    IF f = AdjustedPart002
    THEN Tenths[TemperatureAdjusted(intensity)]
    ELSE DoublePlus(Tenths[BaseTemp(f, intensity)],
                    DoubleDiv(DoubleTimes(j, Tenths[TempRange(f, intensity)]),
                              Max(n - 1, 1)))

\* seed of call j, r = Math.floor(Math.random() * 1000000)
Seed(f, r, j) ==
    IF f = FusedService THEN r
    ELSE IF f = FusedPart002 THEN r + j * 1000
    ELSE r + j

(***************************************************************************)
(* Result strings                                                          *)
(***************************************************************************)
encodeURIComponent(message) == [k \in 1..Len(message) |-> "%" \o message[k]]

PlaceholderAsset == <<"data:", "image_gen_failed.png">>
PlaceholderPixel == <<"data:", "1x1 transparent pixel">>

\* how the nested try block that loads ./image_gen_failed.png ends:
\*   asset        response.ok, the blob is read and reader.onload fires
\*   notOk        response.ok is false
\*   throws       fetch rejects
\*   blobRejects  response.blob() rejects
\*   readerError  the FileReader fails: onload never fires, and the promise
\*                has no other handler that settles it
FetchOutcomes == {"asset", "notOk", "throws", "blobRejects", "readerError"}

\* errorPlaceholder after the nested try/catch around fetch
ErrorPlaceholder(fetched) == IF fetched = "asset" THEN PlaceholderAsset ELSE PlaceholderPixel

\* error.message || '未知错误'
ErrorMessageOf(e) ==
    IF e.hasMessage /\ e.message # <<>> THEN e.message ELSE <<"unknown error">>

\* a tagged string that carries the message as it is
FailedResult_Unencoded(fetched, e) ==
    ErrorPlaceholder(fetched) \o <<"#error=">> \o ErrorMessageOf(e)

\* the string pushed for a failed call
FailedResult(fetched, e) ==
    ErrorPlaceholder(fetched) \o <<"#error=">> \o encodeURIComponent(ErrorMessageOf(e))

\* the string handed to onProgress for failed call j
FailedProgress(fetched, e, j) ==
    ErrorPlaceholder(fetched) \o <<"#error=">> \o
    encodeURIComponent(<<"image " \o ToString(j + 1) \o " failed:">> \o ErrorMessageOf(e))

\* result.includes('#error=')
isError(result) == Includes(result, "#error=")

(***************************************************************************)
(* What the panels make of a result string (FusionPanel.tsx 340-354,        *)
(* AdjustmentPanel.tsx 253-267).                                            *)
(***************************************************************************)
RECURSIVE BeforeDelimiter(_)
BeforeDelimiter(result) ==
    IF result = <<>> \/ Head(result) = "#error=" THEN <<>>
    ELSE <<Head(result)>> \o BeforeDelimiter(Tail(result))

\* result.split('#error=')
RECURSIVE split(_)
split(result) ==
    IF ~isError(result) THEN <<result>>
    ELSE <<BeforeDelimiter(result)>> \o
         split(SubSeq(result, Len(BeforeDelimiter(result)) + 2, Len(result)))

\* a '%' that no escaped text follows: decodeURIComponent throws URIError
Malformed(encoded) == \E k \in 1..Len(encoded) : encoded[k] = "%"

\* the inverse of the escaping: the '%' in front of a piece of text is removed
decodeURIComponent(encoded) ==
    [k \in 1..Len(encoded) |->
        IF SubSeq(encoded[k], 1, 1) = "%"
        THEN SubSeq(encoded[k], 2, Len(encoded[k]))
        ELSE encoded[k]]

\* isError, imageUrl and errorMessage of the map callback
RenderResult(result) ==
    IF isError(result)
    THEN [isError |-> TRUE,
          imageUrl |-> split(result)[1],
          errorMessage |-> IF Malformed(split(result)[2]) THEN <<"generation failed">>
                           ELSE decodeURIComponent(split(result)[2])]
    ELSE [isError |-> FALSE, imageUrl |-> result, errorMessage |-> <<>>]

\* batch: the invocation whose results array the item was pushed to
Push(res, j, url) == Append(res, [from |-> j, url |-> url, batch |-> self])

Event(type, j) == [type |-> type, idx |-> j]

(***************************************************************************)
(* What generateContent can settle with in a batch run                     *)
(***************************************************************************)
ImageResponse == Response(TRUE, "STOP", TRUE, TRUE, <<"inlineData:A">>)

BatchResponses(key) ==
    IF key = "invalid"
    THEN {Rejection(Err(<<"{error:{message:API key not valid}}">>)),
          Rejection(Err(<<"API key not valid">>))}
    ELSE {ImageResponse,
          Response(TRUE, "SAFETY", TRUE, TRUE, <<"inlineData:A">>),
          Response(TRUE, "STOP", TRUE, TRUE, <<"text">>),
          Rejection(Err(<<"xhr error">>)),
          Rejection(NoMessageErr)}

\* what fileToGenerativePart rejects with
PreprocessErrors == {Err(<<"Failed to read file.">>)}

(***************************************************************************)
(* The batch loop.  pc is the await the function is suspended at:          *)
(*   start        called, nothing run yet                                  *)
(*   preparing    await fileToGenerativePart(...) before the loop (fused)  *)
(*   encoding     await fileToGenerativePart(imageFile) in the loop        *)
(*   calling      await callImageEditingModel(...)                         *)
(*   placeholder  await fetch('./image_gen_failed.png') in the catch block *)
(*   hung         await new Promise(...) around the FileReader, which is   *)
(*                never settled                                            *)
(*   delay        await setTimeout 1500                                    *)
(*   resolved / rejected   the returned promise has settled                *)
(***************************************************************************)
\* no second batch is running
NoBatch == [running |-> FALSE]

Init ==
    /\ impl \in Impls
    /\ count \in 0..MaxCount
    /\ variationIntensity \in Intensities
    /\ hasOnProgress \in BOOLEAN
    /\ apiKey \in ApiKeys
    /\ randoms = {0}
    /\ pc = "start"
    /\ i = 0
    /\ results = <<>>
    /\ progress = <<>>
    /\ calls = <<>>
    /\ log = <<>>
    /\ inFlight = {}
    /\ pending = NoErr
    /\ aiInstance = FALSE
    /\ error = NoErr
    /\ cancelRequested = FALSE
    /\ clientLog = <<>>
    /\ constructions = 0
    /\ self = 1
    /\ NoComponents
    /\ other = NoBatch

\* the calls still in flight once the awaited promise has settled
Settled == IF pc = "calling" THEN inFlight \ {i} ELSE inFlight

\* mutant of Reject: the outer catch rethrows what it caught
Reject_Rethrow(e, res, prog, lg) ==
    /\ pc' = "rejected"
    /\ error' = e
    /\ results' = res
    /\ progress' = prog
    /\ log' = lg
    /\ inFlight' = Settled
    /\ pending' = NoErr
    /\ UNCHANGED <<i, calls, aiInstance, clientLog, constructions>>

\* the outer catch: throw handleApiError(e, '批量合成')
Reject(e, res, prog, lg) ==
    /\ pc' = "rejected"
    /\ error' = handleApiError(e, BatchLabel)
    /\ results' = res
    /\ progress' = prog
    /\ log' = lg
    /\ inFlight' = Settled
    /\ pending' = NoErr
    /\ UNCHANGED <<i, calls, aiInstance, clientLog, constructions>>

\* mutant of AfterLoop: results is returned without the emptiness check
AfterLoop_NoEmptyCheck(j, res, prog, lg) ==
    /\ pc' = "resolved"
    /\ i' = j
    /\ results' = res
    /\ progress' = prog
    /\ log' = Append(lg, Event("afterLoop", j))
    /\ inFlight' = Settled
    /\ pending' = NoErr
    /\ UNCHANGED <<calls, aiInstance, clientLog, constructions, error>>

\* after the loop: throw if results is empty, otherwise return results
AfterLoop(j, res, prog, lg) ==
    IF Len(res) = 0
    THEN /\ Reject(Err(<<"all image generations failed">>), res, prog,
                   Append(lg, Event("afterLoop", j)))
    ELSE /\ pc' = "resolved"
         /\ i' = j
         /\ results' = res
         /\ progress' = prog
         /\ log' = Append(lg, Event("afterLoop", j))
         /\ inFlight' = Settled
         /\ pending' = NoErr
         /\ UNCHANGED <<calls, aiInstance, clientLog, constructions, error>>

\* the arguments of call j, r being what Math.random gave for the seed
CallRecord(j, r) ==
    [idx |-> j,
     seed |-> Seed(impl, r, j),
     temperature |-> Temperature(impl, variationIntensity, j, count),
     descriptor |-> Descriptor(impl, variationIntensity, j),
     action |-> ActionLabel(j),
     batch |-> self]

\* mutant of IssueCall: the call is not awaited, so the loop goes on and
\* issues the call of the next index as well
IssueCall_NotAwaited(j, res, prog, lg) ==
    \E r \in randoms :
    \E ctorOk \in (IF ~aiInstance /\ apiKey # "missing" THEN BOOLEAN ELSE {TRUE}) :
        /\ pc' = "calling"
        /\ i' = j
        /\ results' = res
        /\ progress' = prog
        /\ log' = IF j + 1 < count
                  THEN lg \o <<Event("call", j), Event("call", j + 1)>>
                  ELSE Append(lg, Event("call", j))
        /\ calls' = IF j + 1 < count
                    THEN calls \o <<CallRecord(j, r), CallRecord(j + 1, r)>>
                    ELSE Append(calls, CallRecord(j, r))
        /\ inFlight' = IF j + 1 < count THEN Settled \cup {j, j + 1} ELSE Settled \cup {j}
        /\ aiInstance' = getGoogleAI_instance(aiInstance, apiKey, ctorOk)
        /\ pending' = getGoogleAI_throws(aiInstance, apiKey, ctorOk)
        /\ constructions' = Constructed(aiInstance, apiKey, ctorOk, constructions)
        /\ clientLog' = Append(clientLog, ClientEntry(aiInstance, apiKey, ctorOk, constructions))
        /\ UNCHANGED error

\* build the parts and the parameters of call j and call callImageEditingModel,
\* which runs getGoogleAI and, if that returns, sends the request
IssueCall(j, res, prog, lg) ==
    \E r \in randoms :
    \E ctorOk \in (IF ~aiInstance /\ apiKey # "missing" THEN BOOLEAN ELSE {TRUE}) :
        /\ pc' = "calling"
        /\ i' = j
        /\ results' = res
        /\ progress' = prog
        /\ log' = Append(lg, Event("call", j))
        /\ calls' = Append(calls, CallRecord(j, r))
        /\ inFlight' = Settled \cup {j}
        /\ aiInstance' = getGoogleAI_instance(aiInstance, apiKey, ctorOk)
        /\ pending' = getGoogleAI_throws(aiInstance, apiKey, ctorOk)
        /\ constructions' = Constructed(aiInstance, apiKey, ctorOk, constructions)
        /\ clientLog' = Append(clientLog, ClientEntry(aiInstance, apiKey, ctorOk, constructions))
        /\ UNCHANGED error

\* for (let i = 0; i < count; i++) { try { ... up to the first await
LoopTop(j, res, prog, lg) ==
    IF j < count
    THEN IF impl = AdjustedPart002
         THEN /\ pc' = "encoding"
              /\ i' = j
              /\ results' = res
              /\ progress' = prog
              /\ log' = Append(lg, Event("encode", j))
              /\ inFlight' = Settled
              /\ pending' = NoErr
              /\ UNCHANGED <<calls, aiInstance, clientLog, constructions, error>>
         ELSE IssueCall(j, res, prog, lg)
    ELSE AfterLoop(j, res, prog, lg)

\* if (i < count - 1) await new Promise(resolve => setTimeout(resolve, 1500))
Pace(j, res, prog, lg) ==
    IF j < count - 1
    THEN /\ pc' = "delay"
         /\ i' = j
         /\ results' = res
         /\ progress' = prog
         /\ log' = lg
         /\ inFlight' = Settled
         /\ pending' = NoErr
         /\ UNCHANGED <<calls, aiInstance, clientLog, constructions, error>>
    ELSE LoopTop(j + 1, res, prog, lg)

\* an onProgress call that counts from 0
Notify_ZeroBased(prog, url, j) ==
    IF hasOnProgress
    THEN Append(prog, [url |-> url, current |-> j, total |-> count, batch |-> self])
    ELSE prog
\* if (onProgress) onProgress(url, j + 1, count)
Notify(prog, url, j) ==
    IF hasOnProgress
    THEN Append(prog, [url |-> url, current |-> j + 1, total |-> count, batch |-> self])
    ELSE prog

NotifyLog(lg, j) == IF hasOnProgress THEN Append(lg, Event("progress", j)) ELSE lg

\* the try block after callImageEditingModel has returned url
Succeeded(j, url, lg) ==
    Pace(j, Push(results, j, url), Notify(progress, url, j),
         NotifyLog(Append(lg, Event("push", j)), j))

\* the catch block of iteration j in geminiService.ts, entered with e:
\* rethrow the failure of the first call, otherwise go on with the next index
FailedService(j, e, lg) ==
    IF j = 0 /\ Len(results) = 0
    THEN Reject(e, results, progress, lg)
    ELSE LoopTop(j + 1, results, progress, lg)

\* the catch block of iteration j in part_002 (both functions), entered with
\* e, up to its first await: fetch('./image_gen_failed.png')
FailedPart002(j, e, lg) ==
    /\ pc' = "placeholder"
    /\ pending' = e
    /\ log' = Append(lg, Event("fetch", j))
    /\ inFlight' = Settled
    /\ UNCHANGED <<i, results, progress, calls, aiInstance, clientLog, constructions, error>>

Failed(j, e, lg) ==
    IF impl = FusedService THEN FailedService(j, e, lg) ELSE FailedPart002(j, e, lg)

\* the message names the API key as the cause
IdentifiesKey(message) ==
    \/ Includes(message, "API key not found")
    \/ Includes(message, "API key not valid")
    \/ Includes(message, "system API key invalid")

\* how the settlement of a failed call is written to the log
FailureType(e) == IF IdentifiesKey(e.message) THEN "failed:credential" ELSE "failed"

Start ==
    /\ pc = "start"
    /\ IF IsFused
       THEN /\ pc' = "preparing"
            /\ log' = Append(log, Event("encode", -1))
            /\ UNCHANGED <<i, results, progress, calls, inFlight, pending, aiInstance, clientLog, constructions, error>>
       ELSE LoopTop(0, results, progress, log)
    /\ UNCHANGED <<params, components, cancelRequested>>

\* the fused loops: the images are encoded before the loop
PrepareSettle ==
    /\ pc = "preparing"
    /\ \/ LoopTop(0, results, progress, log)
       \/ \E e \in PreprocessErrors : Reject(e, results, progress, log)
    /\ UNCHANGED <<params, components, cancelRequested>>

\* generateAdjustedImages: the image is encoded inside the try of iteration i
EncodeSettle ==
    /\ pc = "encoding"
    /\ \/ IssueCall(i, results, progress, log)
       \/ \E e \in PreprocessErrors : Failed(i, e, Append(log, Event("encodeFailed", i)))
    /\ UNCHANGED <<params, components, cancelRequested>>

\* callImageEditingModel settles: getGoogleAI threw, or generateContent settled
CallSettle ==
    /\ pc = "calling"
    /\ IF pending # NoErr
       THEN LET e == RethrowOrHandle(pending, ActionLabel(i))
            IN Failed(i, e, Append(log, Event(FailureType(e), i)))
       ELSE \E r \in BatchResponses(apiKey) :
              LET c == callImageEditingModel(r, ActionLabel(i))
              IN IF c.ok
                 THEN Succeeded(i, c.url, Append(log, Event("succeeded", i)))
                 ELSE Failed(i, c.thrown, Append(log, Event(FailureType(c.thrown), i)))
    /\ UNCHANGED <<params, components, cancelRequested>>

\* the placeholder is known: push the tagged string, report it, pace
PlaceholderSettle ==
    /\ pc = "placeholder"
    /\ \E fetched \in FetchOutcomes :
         IF fetched = "readerError"
         THEN /\ pc' = "hung"
              /\ log' = Append(log, Event("hung", i))
              /\ UNCHANGED <<i, results, progress, calls, inFlight, pending, aiInstance,
                             clientLog, constructions, error>>
         ELSE Pace(i, Push(results, i, FailedResult(fetched, pending)),
                   Notify(progress, FailedProgress(fetched, pending, i), i),
                   NotifyLog(Append(log, Event("push", i)), i))
    /\ UNCHANGED <<params, components, cancelRequested>>

DelayDone ==
    /\ pc = "delay"
    /\ LoopTop(i + 1, results, progress, Append(log, Event("delay", i)))
    /\ UNCHANGED <<params, components, cancelRequested>>

\* the cancel button of the panel, rendered while canCancel && isLoading;
\* the batch functions take no cancellation token, so nothing reads the flag
isLoading == pc \notin {"start", "resolved", "rejected"}

OnCancel ==
    /\ isLoading
    /\ ~cancelRequested
    /\ cancelRequested' = TRUE
    /\ log' = Append(log, Event("cancel", i))
    /\ UNCHANGED <<params, components, pc, i, results, progress, calls, inFlight, pending,
                   aiInstance, clientLog, constructions, error>>

Next ==
    \/ Start
    \/ PrepareSettle
    \/ EncodeSettle
    \/ CallSettle
    \/ PlaceholderSettle
    \/ DelayDone

Spec == Init /\ [][Next]_vars

MaxCountLive == 2

InitLive ==
    /\ impl \in Impls
    /\ count \in 0..MaxCountLive
    /\ variationIntensity = "moderate"
    /\ hasOnProgress = TRUE
    /\ apiKey \in ApiKeys
    /\ randoms = {0}
    /\ pc = "start"
    /\ i = 0
    /\ results = <<>>
    /\ progress = <<>>
    /\ calls = <<>>
    /\ log = <<>>
    /\ inFlight = {}
    /\ pending = NoErr
    /\ aiInstance = FALSE
    /\ error = NoErr
    /\ cancelRequested = FALSE
    /\ clientLog = <<>>
    /\ constructions = 0
    /\ self = 1
    /\ NoComponents
    /\ other = NoBatch

\* the function is suspended at an await or about to run
Awaiting == pc \in {"start", "preparing", "encoding", "calling", "placeholder", "delay"}

\* the function moves on from where it is: to another await, to the same
\* await of a later iteration, or to its end
Resume ==
    /\ Awaiting
    /\ pc' \in {"preparing", "encoding", "calling", "placeholder", "delay", "hung",
               "resolved", "rejected"}
    /\ i' \in 0..count

\* the batch when every promise it awaits settles and every timer fires: the
\* function does not stay suspended for ever at an await whose promise settles
SpecLive == InitLive /\ [][Next]_vars /\ WF_<<pc, i>>(Resume)

\* the batch with the panel's cancel button
NextCancel == Next \/ OnCancel

SpecCancel == Init /\ [][NextCancel]_vars

(***************************************************************************)
(* The batch with Math.random drawing different values.  Three values of    *)
(* Math.floor(Math.random() * 1000000) are enough to tell the seeds of the  *)
(* three loops apart: r, r + i * 1000 and r + i.                            *)
(***************************************************************************)
Randoms == {0, 1, 1000}

InitSeeds ==
    /\ impl \in Impls
    /\ count \in 0..MaxCount
    /\ variationIntensity \in Intensities
    /\ hasOnProgress = FALSE
    /\ apiKey = "valid"
    /\ randoms = Randoms
    /\ pc = "start"
    /\ i = 0
    /\ results = <<>>
    /\ progress = <<>>
    /\ calls = <<>>
    /\ log = <<>>
    /\ inFlight = {}
    /\ pending = NoErr
    /\ aiInstance = FALSE
    /\ error = NoErr
    /\ cancelRequested = FALSE
    /\ clientLog = <<>>
    /\ constructions = 0
    /\ self = 1
    /\ NoComponents
    /\ other = NoBatch

SpecSeeds == InitSeeds /\ [][Next]_vars

(***************************************************************************)
(* The parameters of the calls alone: the descriptor, temperature and seed  *)
(* each iteration computes from i, count and variationIntensity, for counts *)
(* beyond the length of the variation lists.                                *)
(***************************************************************************)
MaxParamCount == 44

InitParams ==
    /\ impl \in Impls
    /\ count \in 1..MaxParamCount
    /\ variationIntensity \in Intensities
    /\ hasOnProgress = FALSE
    /\ apiKey = "valid"
    /\ randoms = {0}
    /\ pc = "params"
    /\ i = 0
    /\ results = <<>>
    /\ progress = <<>>
    /\ calls = <<>>
    /\ log = <<>>
    /\ inFlight = {}
    /\ pending = NoErr
    /\ aiInstance = FALSE
    /\ error = NoErr
    /\ cancelRequested = FALSE
    /\ clientLog = <<>>
    /\ constructions = 0
    /\ self = 1
    /\ NoComponents
    /\ other = NoBatch

\* iteration i computes what it passes to callImageEditingModel
ParamStep ==
    /\ pc = "params"
    /\ i < count
    /\ \E r \in randoms : calls' = Append(calls, CallRecord(i, r))
    /\ i' = i + 1
    /\ UNCHANGED <<params, components, pc, results, progress, log, inFlight, pending, aiInstance,
                   clientLog, constructions, error, cancelRequested>>

NextParams == ParamStep

SpecParams == InitParams /\ [][NextParams]_vars

(***************************************************************************)
(* The batch from the moment its first call is in flight and ends with a    *)
(* rejection whose message is any text of the service: the '#error='        *)
(* delimiter and the escape character '%' are among the pieces of text.     *)
(***************************************************************************)
MaxMessageLen == 2

TagAlphabet == {"quota", "#error=", "%"}

Messages == UNION {[1..n -> TagAlphabet] : n \in 1..MaxMessageLen}

InitTag ==
    /\ impl \in Impls
    /\ count \in 1..MaxCount
    /\ variationIntensity = "moderate"
    /\ hasOnProgress = TRUE
    /\ apiKey = "valid"
    /\ randoms = {0}
    /\ pc = "calling"
    /\ i = 0
    /\ results = <<>>
    /\ progress = <<>>
    /\ self = 1
    /\ NoComponents
    /\ other = NoBatch
    /\ calls = <<CallRecord(0, 0)>>
    /\ log = <<Event("encode", IF IsFused THEN -1 ELSE 0), Event("call", 0)>>
    /\ inFlight = {0}
    /\ \E message \in Messages : pending = Err(message)
    /\ aiInstance = TRUE
    /\ error = NoErr
    /\ cancelRequested = FALSE
    /\ clientLog = <<ClientEntry(FALSE, "valid", TRUE, 0)>>
    /\ constructions = 1

NextTag ==
    \/ EncodeSettle
    \/ CallSettle
    \/ PlaceholderSettle
    \/ DelayDone

SpecTag == InitTag /\ [][NextTag]_vars

(***************************************************************************)
(* Two batches at once. The functions are async and JavaScript runs one     *)
(* of them at a time, from one await to the next: the variables above are   *)
(* the locals of the invocation that runs, other holds the locals of the    *)
(* invocation that is suspended at its await, and Switch is the event loop  *)
(* resuming the suspended one. aiInstance is module state (line 8), and     *)
(* API_KEY and Math.random belong to the environment: they are not locals.  *)
(***************************************************************************)
\* the largest count of the first invocation; the second asks for one image,
\* which it can request before, between and after the calls of the first
MaxCountTwo == 2

Locals ==
    [running |-> TRUE, self |-> self, impl |-> impl, count |-> count,
     variationIntensity |-> variationIntensity, hasOnProgress |-> hasOnProgress,
     pc |-> pc, i |-> i, results |-> results, progress |-> progress,
     calls |-> calls, log |-> log, inFlight |-> inFlight, pending |-> pending,
     error |-> error]

\* the locals of an invocation that has not run its first statement yet
Invoked(b, f, n, intensity, onProgress) ==
    [running |-> TRUE, self |-> b, impl |-> f, count |-> n,
     variationIntensity |-> intensity, hasOnProgress |-> onProgress,
     pc |-> "start", i |-> 0, results |-> <<>>, progress |-> <<>>,
     calls |-> <<>>, log |-> <<>>, inFlight |-> {}, pending |-> NoErr,
     error |-> NoErr]

InitTwo ==
    /\ impl \in Impls
    /\ count \in 1..MaxCountTwo
    /\ variationIntensity = "moderate"
    /\ hasOnProgress = TRUE
    /\ apiKey = "valid"
    /\ randoms = {0}
    /\ pc = "start"
    /\ i = 0
    /\ results = <<>>
    /\ progress = <<>>
    /\ calls = <<>>
    /\ log = <<>>
    /\ inFlight = {}
    /\ pending = NoErr
    /\ aiInstance = FALSE
    /\ error = NoErr
    /\ cancelRequested = FALSE
    /\ clientLog = <<>>
    /\ constructions = 0
    /\ self = 1
    /\ NoComponents
    /\ \E f \in Impls : other = Invoked(2, f, 1, "moderate", TRUE)

\* an event loop in which both invocations would push to one results array
Switch_SharedResults ==
    /\ other.running
    /\ other.pc \notin {"resolved", "rejected"}
    /\ other' = Locals
    /\ self' = other.self
    /\ impl' = other.impl
    /\ count' = other.count
    /\ variationIntensity' = other.variationIntensity
    /\ hasOnProgress' = other.hasOnProgress
    /\ pc' = other.pc
    /\ i' = other.i
    /\ results' = results
    /\ progress' = other.progress
    /\ calls' = other.calls
    /\ log' = other.log
    /\ inFlight' = other.inFlight
    /\ pending' = other.pending
    /\ error' = other.error
    /\ UNCHANGED <<apiKey, randoms, aiInstance, clientLog, constructions, cancelRequested,
                   components>>

Switch ==
    /\ other.running
    /\ other.pc \notin {"resolved", "rejected"}
    /\ other' = Locals
    /\ self' = other.self
    /\ impl' = other.impl
    /\ count' = other.count
    /\ variationIntensity' = other.variationIntensity
    /\ hasOnProgress' = other.hasOnProgress
    /\ pc' = other.pc
    /\ i' = other.i
    /\ results' = other.results
    /\ progress' = other.progress
    /\ calls' = other.calls
    /\ log' = other.log
    /\ inFlight' = other.inFlight
    /\ pending' = other.pending
    /\ error' = other.error
    /\ UNCHANGED <<apiKey, randoms, aiInstance, clientLog, constructions, cancelRequested,
                   components>>

NextTwo == Next \/ Switch

SpecTwo == InitTwo /\ [][NextTwo]_vars

(***************************************************************************)
(* The client alone: any service function calls getGoogleAI, and the        *)
(* environment's API_KEY changes between calls.                             *)
(***************************************************************************)
MaxClientCalls == 4

InitClient ==
    /\ impl = FusedService
    /\ count = 0
    /\ variationIntensity = "moderate"
    /\ hasOnProgress = FALSE
    /\ apiKey \in ApiKeys
    /\ randoms = {0}
    /\ pc = "client"
    /\ i = 0
    /\ results = <<>>
    /\ progress = <<>>
    /\ calls = <<>>
    /\ log = <<>>
    /\ inFlight = {}
    /\ pending = NoErr
    /\ aiInstance = FALSE
    /\ error = NoErr
    /\ cancelRequested = FALSE
    /\ clientLog = <<>>
    /\ constructions = 0
    /\ self = 1
    /\ NoComponents
    /\ other = NoBatch

GetGoogleAI ==
    /\ pc = "client"
    /\ Len(clientLog) < MaxClientCalls
    /\ \E ctorOk \in BOOLEAN :
        /\ aiInstance' = getGoogleAI_instance(aiInstance, apiKey, ctorOk)
        /\ constructions' = Constructed(aiInstance, apiKey, ctorOk, constructions)
        /\ clientLog' = Append(clientLog, ClientEntry(aiInstance, apiKey, ctorOk, constructions))
    /\ UNCHANGED <<params, components, pc, i, results, progress, calls, log, inFlight, pending,
                   error, cancelRequested>>

\* process.env.API_KEY is set, unset or replaced
SetApiKey ==
    /\ pc = "client"
    /\ \E key \in ApiKeys \ {apiKey} : apiKey' = key
    /\ UNCHANGED <<impl, count, variationIntensity, hasOnProgress, randoms, self, other,
                   pc, i, results, progress, calls, log, inFlight, pending,
                   aiInstance, clientLog, constructions, error, cancelRequested, components>>

NextClient == GetGoogleAI \/ SetApiKey

SpecClient == InitClient /\ [][NextClient]_vars

(***************************************************************************)
(* Reading the history                                                     *)
(***************************************************************************)
LogHas(type, j) == \E p \in 1..Len(log) : log[p] = Event(type, j)

CallSucceeded(j) == LogHas("succeeded", j)

CallFailed(j) == LogHas("failed", j) \/ LogHas("failed:credential", j)

Done == pc \in {"resolved", "rejected"}

\* the text after the '#error=' delimiter of a tagged string
RECURSIVE AfterDelimiter(_)
AfterDelimiter(url) ==
    IF url = <<>> THEN <<>>
    ELSE IF Head(url) = "#error=" THEN Tail(url)
    ELSE AfterDelimiter(Tail(url))

ProgressFor(j) == {p \in 1..Len(progress) : progress[p].current = j + 1}

\* the batch was ended by the failure of its first call
AbortedOnFirstFailure == pc = "rejected" /\ CallFailed(0) /\ Len(calls) = 1

(***************************************************************************)
(* C1: if the first transform call (index 0) fails, the batch rejects and  *)
(* makes no further transform call: exactly one call was made.             *)
(***************************************************************************)
C1_FirstFailureAborts ==
    CallFailed(0) => (pc = "rejected" /\ Len(calls) = 1)

(***************************************************************************)
(* C2: if call k > 0 fails and the earlier calls succeeded, the batch      *)
(* resolves with exactly count items, item k is a failed item with a       *)
(* non-empty error message, every position whose call succeeded is a       *)
(* success item, and a progress event was emitted for every index.         *)
(***************************************************************************)
C2_LaterFailureIsIsolated ==
    \A k \in 1..(count - 1) :
        (Done /\ CallFailed(k) /\ \A j \in 0..(k - 1) : CallSucceeded(j)) =>
            /\ pc = "resolved"
            /\ Len(results) = count
            /\ isError(results[k + 1].url)
            /\ AfterDelimiter(results[k + 1].url) # <<>>
            /\ \A p \in 0..(count - 1) : CallSucceeded(p) => ~isError(results[p + 1].url)
            /\ hasOnProgress => \A p \in 0..(count - 1) : ProgressFor(p) # {}

(***************************************************************************)
(* C3: a batch that resolves returns at most count items, and exactly      *)
(* count items unless it was aborted by the failure of its first call.     *)
(***************************************************************************)
C3_ReturnsCountItems ==
    pc = "resolved" =>
        /\ Len(results) <= count
        /\ Len(results) = count \/ AbortedOnFirstFailure

(***************************************************************************)
(* C4: when cancellation is requested between two calls, after item j has   *)
(* completed, no further transform call is issued and the batch returns    *)
(* what it had collected, at most j + 1 items.                             *)
(***************************************************************************)
CancelPos == CHOOSE c \in 1..Len(log) : log[c].type = "cancel"

CallsBefore(c) == Cardinality({p \in 1..c : log[p].type = "call"})

SettledBefore(c) ==
    Cardinality({p \in 1..c : log[p].type \in {"succeeded", "failed", "failed:credential"}})

C4_CancelStopsCalls ==
    (cancelRequested /\ SettledBefore(CancelPos) >= 1
                     /\ SettledBefore(CancelPos) = CallsBefore(CancelPos)) =>
        /\ \A p \in (CancelPos + 1)..Len(log) : log[p].type # "call"
        /\ pc = "resolved" => Len(results) <= CallsBefore(CancelPos)

(***************************************************************************)
(* C5: at most one transform call is in flight at any time, and a call is  *)
(* issued only after every call issued before it has settled.              *)
(***************************************************************************)
IsSettlement(ev, j) ==
    ev.idx = j /\ ev.type \in {"succeeded", "failed", "failed:credential"}

C5_OneCallInFlight ==
    /\ Cardinality(inFlight) <= 1
    /\ \A p, q \in 1..Len(log) :
         (p < q /\ log[p].type = "call" /\ log[q].type = "call") =>
             \E s \in (p + 1)..(q - 1) : IsSettlement(log[s], log[p].idx)

C5_Witness ==
    pc = "calling" /\ Len(calls) >= 2 /\ inFlight = {i} /\ i = Len(calls) - 1

(***************************************************************************)
(* C6: in a batch that is not aborted by its first call, a progress event  *)
(* is emitted exactly once for every completed transform call, succeeded   *)
(* or failed, with currentIndex = index + 1 and total = count, and the     *)
(* event of a successful call carries the URI appended to the results.     *)
(***************************************************************************)
ResultsFrom(j) == {p \in 1..Len(results) : results[p].from = j}

\* call j has settled and the code that handles its outcome has run
Handled(j) ==
    \/ CallSucceeded(j)
    \/ CallFailed(j) /\ ~(pc = "placeholder" /\ i = j)

C6_ProgressPerCall ==
    (hasOnProgress /\ ~AbortedOnFirstFailure) =>
        \A j \in 0..(count - 1) :
            /\ Cardinality(ProgressFor(j)) <= 1
            /\ \A p \in ProgressFor(j) : progress[p].total = count
            /\ Handled(j) => Cardinality(ProgressFor(j)) = 1
            /\ CallSucceeded(j) =>
                 \A p \in ProgressFor(j) :
                   \E q \in ResultsFrom(j) : results[q].url = progress[p].url

(***************************************************************************)
(* C7: the batch never resolves with an empty list: when the loop ends     *)
(* with no result (count = 0 included) it rejects with the                 *)
(* batch-entirely-failed error; a returned list is in call order.          *)
(***************************************************************************)
LoopEnded == \E p \in 1..Len(log) : log[p].type = "afterLoop"

C7_NeverEmptyInCallOrder ==
    /\ pc = "resolved" =>
         /\ Len(results) > 0
         /\ \A p, q \in 1..Len(results) : p < q => results[p].from < results[q].from
    /\ (LoopEnded /\ Len(results) = 0) =>
         /\ pc = "rejected"
         /\ Includes(error.message, "all image generations failed")

C7_Witness ==
    pc = "resolved" /\ Len(results) >= 2 /\ isError(results[1].url)

(***************************************************************************)
(* C8: between two consecutive transform calls of a batch the pacing delay *)
(* elapses, whether the earlier call succeeded or failed, and no delay is  *)
(* taken after the last call (index count - 1).                            *)
(***************************************************************************)
C8_PacingBetweenCalls ==
    /\ \A p, q \in 1..Len(log) :
         (p < q /\ log[p].type = "call" /\ log[q].type = "call") =>
             \E s \in (p + 1)..(q - 1) : log[s].type = "delay"
    /\ ~LogHas("delay", count - 1)

(***************************************************************************)
(* C9: a transform call that fails because the API key is missing or not   *)
(* valid ends the batch: it rejects with an error whose message names the  *)
(* key, and no call follows the failed one.                                *)
(***************************************************************************)
C9_CredentialFailureIsFatal ==
    \A j \in 0..(count - 1) :
        LogHas("failed:credential", j) =>
            /\ pc = "rejected"
            /\ IdentifiesKey(error.message)
            /\ Len(calls) = j + 1

(***************************************************************************)
(* C10: whenever the batch rejects, the rejection value was built by       *)
(* handleApiError and has a non-empty message.                             *)
(***************************************************************************)
C10_RejectionsAreNormalized ==
    pc = "rejected" =>
        /\ error.handled
        /\ error.hasMessage
        /\ error.message # <<>>

C10_Witness ==
    pc = "rejected" /\ Includes(error.message, "Model responded with text")

(***************************************************************************)
(* C11: the client is built lazily and at most once. Every call of          *)
(* getGoogleAI that returns, returns the one instance that was built;      *)
(* a call that throws (no key, or the constructor failed) leaves            *)
(* aiInstance null, so that a later call builds the client; and once        *)
(* aiInstance is set no later call throws, resets or replaces it.           *)
(***************************************************************************)
Returned(k) == clientLog[k].thrown = NoErr

C11_ClientBuiltOnce ==
    /\ constructions <= 1
    /\ aiInstance <=> constructions = 1
    /\ aiInstance <=> \E k \in 1..Len(clientLog) : Returned(k)
    /\ \A k \in 1..Len(clientLog) :
        /\ Returned(k) => clientLog[k].instance = 1
        /\ Returned(k) => \A m \in k..Len(clientLog) : Returned(m)
    /\ (clientLog # <<>> /\ ~Returned(Len(clientLog))) => ~aiInstance

\* a call failed, the next one built the client, and a third got it again
C11_Witness ==
    \E k \in 1..Len(clientLog) :
        /\ k + 2 <= Len(clientLog)
        /\ ~Returned(k)
        /\ Returned(k + 1)
        /\ Returned(k + 2)
        /\ clientLog[k + 1].instance = clientLog[k + 2].instance

(***************************************************************************)
(* C12: two batches that run at the same time do not interfere. Each one    *)
(* holds only the items, progress events and calls it made itself, in its   *)
(* own call order, whatever the interleaving; a step of the running batch   *)
(* writes nothing of the suspended batch's index, results or parameters;   *)
(* and the client they share is still built once.                           *)
(***************************************************************************)
OwnItems(b, res, prog, cls) ==
    /\ \A p \in 1..Len(res) : res[p].batch = b
    /\ \A p \in 1..Len(prog) : prog[p].batch = b
    /\ \A p \in 1..Len(cls) : cls[p].batch = b
    /\ \A p, q \in 1..Len(cls) : p < q => cls[p].idx < cls[q].idx
    /\ \A p, q \in 1..Len(res) : p < q => res[p].from < res[q].from

C12_Own ==
    /\ OwnItems(self, results, progress, calls)
    /\ other.running =>
        /\ other.self # self
        /\ OwnItems(other.self, other.results, other.progress, other.calls)
    /\ constructions <= 1
    /\ \A k \in 1..Len(clientLog) : Returned(k) => clientLog[k].instance = 1

C12_BatchesDoNotInterfere ==
    /\ []C12_Own
    /\ [][self' = self => other' = other]_vars

\* the second batch made its call between the two calls of the first, and
\* both have returned all their items
C12_Witness ==
    /\ other.running
    /\ pc = "resolved" /\ other.pc = "resolved"
    /\ count = 2 /\ Len(results) = 2
    /\ Len(other.results) = other.count
    /\ Len(clientLog) = 3
    /\ clientLog[1].batch = self
    /\ clientLog[2].batch = other.self
    /\ clientLog[3].batch = self
    /\ constructions = 1

(***************************************************************************)
(* C13: when every transform call of a batch of count n succeeds, the       *)
(* batch returns n success items, the seeds passed to the n calls are       *)
(* pairwise distinct, and the temperatures passed do not decrease with the  *)
(* call index.                                                              *)
(***************************************************************************)
AllSucceeded == Done /\ \A j \in 0..(count - 1) : CallSucceeded(j)

C13_AllSucceedDistinctSeeds ==
    (AllSucceeded /\ count >= 1) =>
        /\ pc = "resolved"
        /\ Len(results) = count
        /\ \A p \in 1..Len(results) : ~isError(results[p].url)
        /\ Len(calls) = count
        /\ \A p, q \in 1..Len(calls) : p < q => calls[p].seed # calls[q].seed
        /\ \A p, q \in 1..Len(calls) :
               p < q => DoubleLeq(calls[p].temperature, calls[q].temperature)

(***************************************************************************)
(* C14: the descriptor of call i is the element i mod listLength of the     *)
(* variation list of the intensity: it is an element of the list for every  *)
(* count, it equals the descriptor of call i mod listLength, and calls i    *)
(* and i + listLength get the same descriptor.                              *)
(***************************************************************************)
ListLength == VariationsLength(impl, VariationKey(variationIntensity))

C14_DescriptorsCycle ==
    \A p \in 1..Len(calls) :
        /\ calls[p].descriptor[1] = VariationKey(variationIntensity)
        /\ calls[p].descriptor[2] \in 0..(ListLength - 1)
        /\ calls[p].descriptor = calls[(calls[p].idx % ListLength) + 1].descriptor
        /\ \A q \in 1..Len(calls) :
               calls[q].idx = calls[p].idx + ListLength =>
                   calls[q].descriptor = calls[p].descriptor

\* a batch longer than its list of twelve: call 12 got the descriptor of call 0
C14_Witness ==
    /\ ListLength = 12
    /\ Len(calls) > ListLength
    /\ calls[ListLength + 1].idx = ListLength
    /\ calls[ListLength + 1].descriptor = calls[1].descriptor
    /\ calls[2].descriptor # calls[1].descriptor

(***************************************************************************)
(* C15: within one batch the temperature passed to call i + 1 is greater    *)
(* than or equal to the temperature passed to call i.                       *)
(***************************************************************************)
C15_TemperatureNonDecreasing ==
    \A p, q \in 1..Len(calls) :
        q = p + 1 => DoubleLeq(calls[p].temperature, calls[q].temperature)

\* a ramp of three or more calls that has risen
C15_Witness ==
    /\ Len(calls) >= 3
    /\ ~DoubleLeq(calls[2].temperature, calls[1].temperature)
    /\ ~DoubleLeq(calls[3].temperature, calls[2].temperature)

(***************************************************************************)
(* C16: in the fused loops call 0 gets baseTemp, the last call of a batch   *)
(* of two or more gets exactly baseTemp + tempRange, a batch of one gets    *)
(* baseTemp, and every temperature lies in [baseTemp, baseTemp + tempRange].*)
(***************************************************************************)
BaseOf == Tenths[BaseTemp(impl, variationIntensity)]

TopOf == DoublePlus(BaseOf, Tenths[TempRange(impl, variationIntensity)])

C16_TemperatureRamp ==
    IsFused =>
        \A p \in 1..Len(calls) :
            /\ calls[p].idx = 0 => calls[p].temperature = BaseOf
            /\ (count >= 2 /\ calls[p].idx = count - 1) => calls[p].temperature = TopOf
            /\ DoubleLeq(BaseOf, calls[p].temperature)
            /\ DoubleLeq(calls[p].temperature, TopOf)

(***************************************************************************)
(* C17: an intensity that is none of the three recognized ones behaves      *)
(* like 'moderate': every call gets the descriptor and the temperature it   *)
(* would get in a batch of the same count with intensity 'moderate'.        *)
(***************************************************************************)
C17_UnrecognizedIsModerate ==
    variationIntensity \notin {"subtle", "moderate", "dramatic"} =>
        \A p \in 1..Len(calls) :
            /\ calls[p].descriptor = Descriptor(impl, "moderate", calls[p].idx)
            /\ calls[p].temperature = Temperature(impl, "moderate", calls[p].idx, count)

(***************************************************************************)
(* C18: the images of a batch are encoded exactly once, before the first    *)
(* transform call, and never inside the loop: the log holds at most one     *)
(* encoding, no encoding follows a call, and every call follows one.        *)
(***************************************************************************)
Encodings == {p \in 1..Len(log) : log[p].type = "encode"}

CallEvents == {p \in 1..Len(log) : log[p].type = "call"}

C18_EncodedOnceBeforeLoop ==
    /\ Cardinality(Encodings) <= 1
    /\ \A p \in Encodings, q \in CallEvents : p < q
    /\ CallEvents # {} => Encodings # {}

(***************************************************************************)
(* C19: the acquisition of the placeholder always completes and never       *)
(* fails the batch: the batch is never left waiting for it, and every call  *)
(* whose failure started it has its slot filled with the asset or the       *)
(* 1x1 pixel as soon as the acquisition is over.                            *)
(***************************************************************************)
StartsWith(url, prefix) ==
    Len(url) >= Len(prefix) /\ SubSeq(url, 1, Len(prefix)) = prefix

C19_PlaceholderAlwaysCompletes ==
    /\ pc # "hung"
    /\ \A j \in 0..(count - 1) :
           (LogHas("fetch", j) /\ ~(pc = "placeholder" /\ i = j)) =>
               \E p \in ResultsFrom(j) :
                   \/ StartsWith(results[p].url, PlaceholderAsset)
                   \/ StartsWith(results[p].url, PlaceholderPixel)

(***************************************************************************)
(* C20: a failed slot is the placeholder URI, '#error=' and the escaped     *)
(* error message. An entry of the results is rendered as failed exactly     *)
(* when a failed call (or a failed encoding) produced it, and what the      *)
(* panel splits and decodes from the entry of a failure is the placeholder  *)
(* URI and the message of the error that was caught; the string handed to   *)
(* onProgress decodes to the same message after the number of the image.    *)
(***************************************************************************)
ProducedByFailure(p) ==
    CallFailed(results[p].from) \/ LogHas("encodeFailed", results[p].from)

C20_TaggedSlots ==
    \A p \in 1..Len(results) : RenderResult(results[p].url).isError <=> ProducedByFailure(p)

C20_TagRoundTrip ==
    (pc = "placeholder" /\ pc' \notin {"placeholder", "hung"}) =>
        /\ Len(results') = Len(results) + 1
        /\ LET shown == RenderResult(results'[Len(results')].url)
           IN /\ shown.isError
              /\ shown.imageUrl \in {PlaceholderAsset, PlaceholderPixel}
              /\ shown.errorMessage = ErrorMessageOf(pending)
        /\ hasOnProgress =>
              LET told == RenderResult(progress'[Len(progress')].url)
              IN /\ told.isError
                 /\ told.imageUrl \in {PlaceholderAsset, PlaceholderPixel}
                 /\ told.errorMessage =
                       <<"image " \o ToString(i + 1) \o " failed:">> \o ErrorMessageOf(pending)

C20_FailedSlotsAreTagged ==
    /\ []C20_TaggedSlots
    /\ [][C20_TagRoundTrip]_vars

\* a failure whose message holds the delimiter, followed by a success
C20_Witness ==
    /\ Len(results) = 2
    /\ RenderResult(results[1].url).isError
    /\ Includes(RenderResult(results[1].url).errorMessage, "#error=")
    /\ Includes(RenderResult(results[1].url).errorMessage, "%")
    /\ ~RenderResult(results[2].url).isError

(***************************************************************************)
(* callImageEditingModel on its own: generateContent has resolved with a   *)
(* response (input), and the call settles (output).                        *)
(***************************************************************************)
MaxParts == 2

\* the parts of a response: images, a text, something else
PartLists ==
    UNION {[1..n -> {"inlineData:A", "inlineData:B", "text", "other"}] : n \in 0..MaxParts}

Responses ==
    {Response(c, f, t, a, IF t /\ a THEN p ELSE <<>>) :
        c \in BOOLEAN, f \in {"STOP", "SAFETY", "MAX_TOKENS", "OTHER"}, t \in BOOLEAN, a \in BOOLEAN, p \in PartLists}

InitClassify ==
    /\ impl = FusedService
    /\ count = 1
    /\ variationIntensity = "moderate"
    /\ hasOnProgress = FALSE
    /\ apiKey = "valid"
    /\ randoms = {0}
    /\ pc = "classify"
    /\ i = 0
    /\ results = <<>>
    /\ progress = <<>>
    /\ calls = <<>>
    /\ log = <<>>
    /\ inFlight = {}
    /\ pending = NoErr
    /\ aiInstance = TRUE
    /\ error = NoErr
    /\ cancelRequested = FALSE
    /\ clientLog = <<>>
    /\ constructions = 1
    /\ self = 1
    /\ other = NoBatch
    /\ input \in Responses
    /\ output = "none"
    /\ decade = "none"
    /\ panel = "none"
    /\ viewer = "none"

\* the code after the await of generateContent, up to the return or the throw
\* out of the catch block
Classify ==
    /\ pc = "classify"
    /\ output' = callImageEditingModel(input, ActionLabel(0))
    /\ pc' = "classified"
    /\ UNCHANGED <<params, i, results, progress, calls, log, inFlight, pending, aiInstance,
                   clientLog, constructions, error, cancelRequested, input, decade, panel,
                   viewer>>

SpecClassify == InitClassify /\ [][Classify]_vars

\* the outcome a settled call reports
OutcomeOf(out) ==
    IF out.ok THEN "image"
    ELSE IF Includes(out.thrown.message, "no candidates in response") THEN "malformed"
    ELSE IF Includes(out.thrown.message, "blocked by safety filter") THEN "safety"
    ELSE IF Includes(out.thrown.message, "response truncated") THEN "truncated"
    ELSE IF Includes(out.thrown.message, "no content in response, finish reason")
      THEN "malformed"
    ELSE IF Includes(out.thrown.message, "malformed response: no parts array")
      THEN "malformed"
    ELSE "no image"

\* C21: callImageEditingModel puts every response into one outcome, looked
\* for in this order: no candidate is a malformed response; finish reason
\* SAFETY is a safety block, content or not; MAX_TOKENS is a truncation;
\* no content or parts that are no array are a malformed response; otherwise
\* the first part with inlineData comes back as a data URI, and without such
\* a part the call fails.  It succeeds only with an inlineData part and a
\* finish reason that is neither SAFETY nor MAX_TOKENS.
C21_ClassifiedInOrder ==
    pc = "classified" =>
        /\ OutcomeOf(output) =
              IF ~input.hasCandidate THEN "malformed"
              ELSE IF input.finishReason = "SAFETY" THEN "safety"
              ELSE IF input.finishReason = "MAX_TOKENS" THEN "truncated"
              ELSE IF ~input.hasContent \/ ~input.partsIsArray THEN "malformed"
              ELSE IF \E k \in 1..Len(input.parts) : IsInlineData(input.parts[k]) THEN "image"
              ELSE "no image"
        /\ output.ok =>
              /\ input.finishReason \notin {"SAFETY", "MAX_TOKENS"}
              /\ \E k \in 1..Len(input.parts) :
                    /\ IsInlineData(input.parts[k])
                    /\ \A j \in 1..(k - 1) : ~IsInlineData(input.parts[j])
                    /\ output.url = <<"data:", input.parts[k]>>
        /\ ~output.ok => output.thrown.hasMessage /\ output.thrown.message # <<>>

\* a safety block that came with content and an image part
C21_Witness ==
    /\ pc = "classified"
    /\ input.finishReason = "SAFETY"
    /\ input.hasContent
    /\ input.hasCandidate
    /\ \E k \in 1..Len(input.parts) : IsInlineData(input.parts[k])
    /\ OutcomeOf(output) = "safety"

\* the indices handed to callImageEditingModel so far, in call order
CalledIndices == [p \in 1..Len(calls) |-> calls[p].idx]

C22_NoRetry ==
    /\ Len(calls) <= count
    /\ \A p \in 1..Len(calls) : calls[p].idx \in 0..(count - 1)
    /\ \A p, q \in 1..Len(calls) : p < q => calls[p].idx < calls[q].idx

\* C22: the batch never retries an index: whatever succeeds or fails, each
\* index of 0..count-1 is passed to the transform at most once, in
\* increasing order, with at most count calls in all, and once every call
\* it awaits has settled the batch resolves or rejects.
C22_NoRetryAndTerminates ==
    /\ []C22_NoRetry
    /\ <>Done

(***************************************************************************)
(* generateDecadeImage: the first attempt with the caller's prompt and the *)
(* fallback attempt.  A prompt is a sequence of characters.                *)
(***************************************************************************)
MaxPromptLen == 5

Digits == {"0", "1", "2", "3", "4", "5", "6", "7", "8", "9"}

\* the prompts of the caller, over three characters
Prompts == UNION {[1..n -> {"1", "9", "s"}] : n \in 0..MaxPromptLen}

\* prompt.match(/(\d{4}s)/) matches at position k
DecadeAt(prompt, k) ==
    /\ k + 4 <= Len(prompt)
    /\ \A j \in k..(k + 3) : prompt[j] \in Digits
    /\ prompt[k + 4] = "s"

\* the leftmost match, <<>> for null
extractDecade(prompt) ==
    IF \E k \in 1..Len(prompt) : DecadeAt(prompt, k)
    THEN LET k == CHOOSE k \in 1..Len(prompt) :
                     DecadeAt(prompt, k) /\ \A j \in 1..(k - 1) : ~DecadeAt(prompt, j)
         IN SubSeq(prompt, k, k + 4)
    ELSE <<>>

getFallbackPrompt(d) == <<"Create a photograph ... living in the">> \o d \o <<"...">>

\* a thrown value that is no instance of Error
PlainObject(message) ==
    [handled |-> FALSE, hasMessage |-> TRUE, message |-> message, plain |-> TRUE]

InstanceOfError(e) == "plain" \notin DOMAIN e

\* error.message.includes("Model responded with text instead of an image")
IncludesTextError(message) ==
    \E k \in 1..(Len(message) - 1) :
        message[k] = "Model responded with text" /\ message[k + 1] = "instead of an image"

\* what the first or the fallback call can meet
DecadeResponses ==
    {ImageResponse,
     Response(TRUE, "STOP", TRUE, TRUE, <<"text">>),
     Response(TRUE, "SAFETY", TRUE, TRUE, <<"text">>),
     Response(TRUE, "STOP", TRUE, TRUE, <<"other">>),
     Rejection(Err(<<"API key not found">>)),
     Rejection(Err(<<"Model responded with text", "and nothing else">>)),
     Rejection(Err(<<"backend:", "Model responded with text", "instead of an image">>)),
     Rejection(PlainObject(<<"Model responded with text", "instead of an image">>)),
     Rejection(NoMessageErr)}

\* a catch block that tries the fallback whatever the first attempt threw
TriesFallback_AnyError(e, prompt) == extractDecade(prompt) # <<>>

\* the catch block of generateDecadeImage goes on to the second attempt
TriesFallback(e, prompt) ==
    /\ InstanceOfError(e)
    /\ IncludesTextError(e.message)
    /\ extractDecade(prompt) # <<>>

\* `${decade}` inside a template literal
TemplateText(d) == IF d = <<>> THEN <<"null">> ELSE d

Attempt(prompt, action) == [prompt |-> prompt, action |-> action]

InitDecade ==
    /\ impl = FusedService
    /\ count = 1
    /\ variationIntensity = "moderate"
    /\ hasOnProgress = FALSE
    /\ apiKey = "valid"
    /\ randoms = {0}
    /\ pc = "decade"
    /\ i = 0
    /\ results = <<>>
    /\ progress = <<>>
    /\ calls = <<>>
    /\ log = <<>>
    /\ inFlight = {}
    /\ pending = NoErr
    /\ aiInstance = TRUE
    /\ error = NoErr
    /\ cancelRequested = FALSE
    /\ clientLog = <<>>
    /\ constructions = 1
    /\ self = 1
    /\ other = NoBatch
    /\ input = "none"
    /\ output = "none"
    /\ \E prompt \in Prompts, validUrl \in BOOLEAN :
          decade = [pc |-> "start", prompt |-> prompt, validUrl |-> validUrl,
                    attempts |-> <<>>, outcomes |-> <<>>, thrown |-> NoErr, url |-> <<>>]
    /\ panel = "none"
    /\ viewer = "none"

DecadeUnchanged ==
    UNCHANGED <<params, pc, i, results, progress, calls, log, inFlight, pending, aiInstance,
                clientLog, constructions, error, cancelRequested, input, output, panel,
                viewer>>

\* up to the first await
DecadeStart ==
    /\ pc = "decade"
    /\ decade.pc = "start"
    /\ IF ~decade.validUrl
       THEN decade' = [decade EXCEPT !.pc = "rejected",
                          !.thrown = Err(<<"Invalid image data URL format.">>)]
       ELSE decade' = [decade EXCEPT !.pc = "first",
                          !.attempts = <<Attempt(decade.prompt,
                              <<"generate">> \o TemplateText(extractDecade(decade.prompt))
                                             \o <<"image">>)>>]
    /\ DecadeUnchanged

\* the first call settles: return, second attempt, or rethrow
FirstSettle ==
    /\ pc = "decade"
    /\ decade.pc = "first"
    /\ \E r \in DecadeResponses :
         LET c == callImageEditingModel(r, decade.attempts[1].action)
             d == extractDecade(decade.prompt)
         IN IF c.ok
            THEN decade' = [decade EXCEPT !.pc = "resolved", !.url = c.url,
                               !.outcomes = Append(@, c)]
            ELSE IF TriesFallback(c.thrown, decade.prompt)
            THEN decade' = [decade EXCEPT !.pc = "fallback",
                               !.outcomes = Append(@, c),
                               !.attempts = Append(@, Attempt(getFallbackPrompt(d),
                                   <<"generate">> \o d \o <<"image (fallback)">>))]
            ELSE decade' = [decade EXCEPT !.pc = "rejected", !.thrown = c.thrown,
                               !.outcomes = Append(@, c)]
    /\ DecadeUnchanged

\* the fallback call settles: its value or its error is the function's
FallbackSettle ==
    /\ pc = "decade"
    /\ decade.pc = "fallback"
    /\ \E r \in DecadeResponses :
         LET c == callImageEditingModel(r, decade.attempts[2].action)
         IN IF c.ok
            THEN decade' = [decade EXCEPT !.pc = "resolved", !.url = c.url,
                               !.outcomes = Append(@, c)]
            ELSE decade' = [decade EXCEPT !.pc = "rejected", !.thrown = c.thrown,
                               !.outcomes = Append(@, c)]
    /\ DecadeUnchanged

NextDecade ==
    \/ DecadeStart
    \/ FirstSettle
    \/ FallbackSettle

SpecDecade == InitDecade /\ [][NextDecade]_vars

\* four digits followed by an s somewhere in the prompt
HasDecade(prompt) ==
    \E k \in 1..Len(prompt) :
        /\ k + 4 <= Len(prompt)
        /\ \A j \in 0..3 : prompt[k + j] \in Digits
        /\ prompt[k + 4] = "s"

FailedWithTextError(c) ==
    /\ ~c.ok
    /\ \E k \in 1..(Len(c.thrown.message) - 1) :
          /\ c.thrown.message[k] = "Model responded with text"
          /\ c.thrown.message[k + 1] = "instead of an image"

DecadeSettled == pc = "decade" /\ decade.pc \in {"resolved", "rejected"}

\* C23: generateDecadeImage makes at most two transform calls: the second,
\* with the fallback prompt, is made once and only after the first failed
\* with the 'Model responded with text instead of an image' error for a
\* prompt that holds a decade (four digits and an s); any other error of
\* the first attempt and any failure of the fallback attempt is rethrown
\* with no further call.
C23_AtMostOneFallback ==
    pc = "decade" =>
        /\ Len(decade.attempts) <= 2
        /\ Len(decade.attempts) = 2 =>
              /\ FailedWithTextError(decade.outcomes[1])
              /\ HasDecade(decade.prompt)
              /\ decade.attempts[2].prompt # decade.attempts[1].prompt
        /\ (DecadeSettled /\ Len(decade.outcomes) = 1 /\ ~decade.outcomes[1].ok) =>
              /\ decade.pc = "rejected"
              /\ decade.thrown = decade.outcomes[1].thrown
              /\ ~(/\ FailedWithTextError(decade.outcomes[1])
                   /\ InstanceOfError(decade.thrown)
                   /\ HasDecade(decade.prompt))
        /\ (DecadeSettled /\ Len(decade.outcomes) = 2 /\ ~decade.outcomes[2].ok) =>
              /\ decade.pc = "rejected"
              /\ decade.thrown = decade.outcomes[2].thrown
        /\ DecadeSettled => Len(decade.outcomes) = Len(decade.attempts)

\* the fallback attempt failed with the text error as well: no third call
C23_Witness ==
    /\ DecadeSettled
    /\ Len(decade.attempts) = 2
    /\ FailedWithTextError(decade.outcomes[2])
    /\ decade.pc = "rejected"

(***************************************************************************)
(* resizeImageForApi: a file (its type and the natural size of the image   *)
(* it holds) and what the browser does with it.                            *)
(***************************************************************************)
MaxDimensionFactor == 3

MAX_DIMENSION == 2048

SUPPORTED_MIME_TYPES == {"image/jpeg", "image/png"}

FileTypes == {"image/jpeg", "image/png", "image/webp"}

Dimensions ==
    {1, 2, 3} \cup {MAX_DIMENSION * k + d : k \in 1..MaxDimensionFactor, d \in {-1, 0, 1}}

Files == [type : FileTypes, width : Dimensions, height : Dimensions, name : {"photo"}]

\* what the FileReader, the Image, the canvas and toBlob do
BrowserOutcomes == {"ok", "readerError", "notString", "imageError", "noContext", "noBlob"}

\* Math.round(a / b), a and b positive integers
RoundedQuotient(a, b) == (2 * a + b) \div (2 * b)

needsConversion(file) == file.type \notin SUPPORTED_MIME_TYPES

\* a test of the width alone
needsResize_WidthOnly(file) == file.width > MAX_DIMENSION

needsResize(file) == file.width > MAX_DIMENSION \/ file.height > MAX_DIMENSION

newWidth(file) ==
    IF ~needsResize(file) THEN file.width
    ELSE IF file.width > file.height THEN MAX_DIMENSION
    ELSE RoundedQuotient(file.width * MAX_DIMENSION, file.height)

newHeight(file) ==
    IF ~needsResize(file) THEN file.height
    ELSE IF file.width > file.height
    THEN RoundedQuotient(file.height * MAX_DIMENSION, file.width)
    ELSE MAX_DIMENSION

Resolved(file, original) ==
    [ok |-> TRUE, file |-> file, mimeType |-> file.type, original |-> original,
     thrown |-> NoErr]

Rejected(message) ==
    [ok |-> FALSE, file |-> "none", mimeType |-> "none", original |-> FALSE,
     thrown |-> Err(message)]

\* the promise resizeImageForApi returns, settled; toBlob hands null to its
\* callback for a canvas without pixels
resizeImageForApi(file, browser) ==
    IF browser = "readerError" THEN Rejected(<<"Failed to read file.">>)
    ELSE IF browser = "notString" THEN Rejected(<<"Failed to read file for processing.">>)
    ELSE IF browser = "imageError" THEN Rejected(<<"Failed to load image for processing:">>)
    ELSE IF ~needsResize(file) /\ ~needsConversion(file) THEN Resolved(file, TRUE)
    ELSE IF browser = "noContext" THEN Rejected(<<"Could not create canvas context.">>)
    ELSE IF browser = "noBlob" \/ newWidth(file) = 0 \/ newHeight(file) = 0
    THEN Rejected(<<"Failed to create blob from canvas.">>)
    ELSE Resolved([type |-> "image/png", width |-> newWidth(file),
                   height |-> newHeight(file), name |-> file.name \o ".png"], FALSE)

InitResize ==
    /\ impl = FusedService
    /\ count = 1
    /\ variationIntensity = "moderate"
    /\ hasOnProgress = FALSE
    /\ apiKey = "valid"
    /\ randoms = {0}
    /\ pc = "resize"
    /\ i = 0
    /\ results = <<>>
    /\ progress = <<>>
    /\ calls = <<>>
    /\ log = <<>>
    /\ inFlight = {}
    /\ pending = NoErr
    /\ aiInstance = FALSE
    /\ error = NoErr
    /\ cancelRequested = FALSE
    /\ clientLog = <<>>
    /\ constructions = 0
    /\ self = 1
    /\ other = NoBatch
    /\ input \in Files
    /\ output = "none"
    /\ decade = "none"
    /\ panel = "none"
    /\ viewer = "none"

Resize ==
    /\ pc = "resize"
    /\ \E browser \in BrowserOutcomes : output' = resizeImageForApi(input, browser)
    /\ pc' = "resized"
    /\ UNCHANGED <<params, i, results, progress, calls, log, inFlight, pending, aiInstance,
                   clientLog, constructions, error, cancelRequested, input, decade, panel,
                   viewer>>

SpecResize == InitResize /\ [][Resize]_vars

WithinLimit(file) ==
    /\ file.type \in {"image/jpeg", "image/png"}
    /\ file.width <= 2048
    /\ file.height <= 2048

Larger(file) == IF file.width >= file.height THEN file.width ELSE file.height

\* C24: what resizeImageForApi returns fits the limits of the API: it is
\* the original file, unchanged, only when that is a JPEG or a PNG with no
\* dimension above 2048; otherwise it is a PNG, its larger dimension 2048
\* when a dimension of the original was above 2048 and its dimensions those
\* of the original when only the type had to change, and both dimensions
\* are at most 2048 and at least 1.
C24_WithinApiLimits ==
    (pc = "resized" /\ output.ok) =>
        /\ output.original <=> WithinLimit(input)
        /\ output.original => output.file = input
        /\ ~output.original =>
              /\ output.file.type = "image/png"
              /\ output.mimeType = "image/png"
              /\ Larger(input) > 2048 => Larger(output.file) = 2048
              /\ Larger(input) <= 2048 =>
                    /\ output.file.width = input.width
                    /\ output.file.height = input.height
              /\ output.file.width \in 1..2048
              /\ output.file.height \in 1..2048

\* a wide strip that comes out one pixel high
C24_Witness ==
    /\ pc = "resized"
    /\ output.ok
    /\ input.width > 2048
    /\ input.height > 1
    /\ output.file.height = 1
    /\ output.file.width = 2048

(***************************************************************************)
(* loadCustomPrompts and parsePrompts.  A text is a sequence of            *)
(* characters, "\n" the line feed.                                         *)
(***************************************************************************)
MaxTextLen == 3

\* the texts of a file, over four characters
Texts == UNION {[1..n -> {" ", "#", "a", "\n"}] : n \in 0..MaxTextLen}

\* text.split('\n')
RECURSIVE SplitLines(_)
SplitLines(text) ==
    IF \E k \in 1..Len(text) : text[k] = "\n"
    THEN LET k == CHOOSE k \in 1..Len(text) :
                     text[k] = "\n" /\ \A j \in 1..(k - 1) : text[j] # "\n"
         IN <<SubSeq(text, 1, k - 1)>> \o SplitLines(SubSeq(text, k + 1, Len(text)))
    ELSE <<text>>

IsWhiteSpace(c) == c \in {" ", "\n"}

RECURSIVE trimStart(_)
trimStart(line) ==
    IF line # <<>> /\ IsWhiteSpace(Head(line)) THEN trimStart(Tail(line)) ELSE line

RECURSIVE trimEnd(_)
trimEnd(line) ==
    IF line # <<>> /\ IsWhiteSpace(line[Len(line)])
    THEN trimEnd(SubSeq(line, 1, Len(line) - 1))
    ELSE line

trim(line) == trimEnd(trimStart(line))

startsWith(line, c) == line # <<>> /\ Head(line) = c

RECURSIVE FilterMap(_)
FilterMap(lines) ==
    IF lines = <<>> THEN <<>>
    ELSE IF trim(Head(lines)) # <<>> /\ ~startsWith(Head(lines), "#")
    THEN <<trim(Head(lines))>> \o FilterMap(Tail(lines))
    ELSE FilterMap(Tail(lines))

parsePrompts(text) == FilterMap(SplitLines(text))

\* what fetching a file ends in: fetch rejects, the response is not ok,
\* response.text() rejects, or the text arrives
FetchResults ==
    {[kind |-> k, text |-> <<>>] : k \in {"fetchRejects", "notOk", "textRejects"}}
        \cup {[kind |-> "text", text |-> t] : t \in Texts}

loadCustomPrompts(custom, examples) ==
    IF custom.kind = "text" /\ Len(parsePrompts(custom.text)) > 0
    THEN [thrown |-> NoErr, prompts |-> parsePrompts(custom.text)]
    ELSE IF examples.kind = "text"
    THEN [thrown |-> NoErr, prompts |-> parsePrompts(examples.text)]
    ELSE [thrown |-> NoErr, prompts |-> <<>>]

InitLoad ==
    /\ impl = FusedService
    /\ count = 1
    /\ variationIntensity = "moderate"
    /\ hasOnProgress = FALSE
    /\ apiKey = "valid"
    /\ randoms = {0}
    /\ pc = "load"
    /\ i = 0
    /\ results = <<>>
    /\ progress = <<>>
    /\ calls = <<>>
    /\ log = <<>>
    /\ inFlight = {}
    /\ pending = NoErr
    /\ aiInstance = FALSE
    /\ error = NoErr
    /\ cancelRequested = FALSE
    /\ clientLog = <<>>
    /\ constructions = 0
    /\ self = 1
    /\ other = NoBatch
    /\ input \in [custom : FetchResults, examples : FetchResults]
    /\ output = "none"
    /\ decade = "none"
    /\ panel = "none"
    /\ viewer = "none"

Load ==
    /\ pc = "load"
    /\ output' = loadCustomPrompts(input.custom, input.examples)
    /\ pc' = "loaded"
    /\ UNCHANGED <<params, i, results, progress, calls, log, inFlight, pending, aiInstance,
                   clientLog, constructions, error, cancelRequested, input, decade, panel,
                   viewer>>

SpecLoad == InitLoad /\ [][Load]_vars

\* the lines of a text that hold a prompt, as the claim describes them
Loads(file) == file.kind = "text"

\* the prompt has no white space at either end, is not empty and does not
\* start with '#'
WellFormedPrompt(prompt) ==
    /\ prompt # <<>>
    /\ ~IsWhiteSpace(prompt[1])
    /\ ~IsWhiteSpace(prompt[Len(prompt)])
    /\ prompt[1] # "#"

C25_Fallbacks ==
    pc = "loaded" =>
        /\ output.thrown = NoErr
        /\ output.prompts =
              IF Loads(input.custom) /\ parsePrompts(input.custom.text) # <<>>
              THEN parsePrompts(input.custom.text)
              ELSE IF Loads(input.examples) THEN parsePrompts(input.examples.text)
              ELSE <<>>

\* C25: loadCustomPrompts never throws: it returns the prompts of
\* custom-prompts.md when that file loads and yields at least one prompt,
\* otherwise those of custom-prompts-examples.md, otherwise the empty list;
\* every prompt it returns is trimmed, not empty and does not start with '#'.
C25_PromptsLoaded ==
    /\ C25_Fallbacks
    /\ pc = "loaded" =>
          \A k \in 1..Len(output.prompts) : WellFormedPrompt(output.prompts[k])

(***************************************************************************)
(* The fusion panel: its two source images, the instruction typed into it, *)
(* the isLoading prop its parent hands it, and the last call of            *)
(* onApplyFusion.                                                          *)
(***************************************************************************)
MaxInstructionLen == 3

\* what can stand in the input, over three characters
Instructions == UNION {[1..n -> {" ", ":", "a"}] : n \in 0..MaxInstructionLen}

\* fullPromptLine.indexOf(':'), 0 for -1
IndexOfColon(line) ==
    IF \E k \in 1..Len(line) : line[k] = ":"
    THEN CHOOSE k \in 1..Len(line) : line[k] = ":" /\ \A j \in 1..(k - 1) : line[j] # ":"
    ELSE 0

extractActualPrompt(fullPromptLine) ==
    IF IndexOfColon(fullPromptLine) = 0 THEN trim(fullPromptLine)
    ELSE trim(SubSeq(fullPromptLine, IndexOfColon(fullPromptLine) + 1, Len(fullPromptLine)))

\* [sourceImageFile1, sourceImageFile2].filter(Boolean).length
SourceFiles(p) == (IF p.file1 THEN 1 ELSE 0) + (IF p.file2 THEN 1 ELSE 0)

\* the 'disabled' attribute of the button whose onClick is handleApply
ApplyDisabled(p) == p.isLoading \/ trim(p.prompt) = <<>> \/ (~p.file1 /\ ~p.file2)

\* the 'disabled' attribute of the text input
InputDisabled(p) == p.isLoading \/ (~p.file1 /\ ~p.file2)

\* onApplyFusion has not been called
NotApplied ==
    [called |-> FALSE, sourceFiles |-> 0, typed |-> <<>>, prompt |-> <<>>, isLoading |-> FALSE]

\* handleApply: the arguments of onApplyFusion, when it calls it
handleApply_Applied(p) ==
    IF SourceFiles(p) > 0 /\ trim(p.prompt) # <<>>
    THEN [called |-> TRUE, sourceFiles |-> SourceFiles(p), typed |-> p.prompt,
          prompt |-> extractActualPrompt(p.prompt), isLoading |-> p.isLoading]
    ELSE p.applied

InitPanel ==
    /\ impl = FusedService
    /\ count = 1
    /\ variationIntensity = "moderate"
    /\ hasOnProgress = FALSE
    /\ apiKey = "valid"
    /\ randoms = {0}
    /\ pc = "panel"
    /\ i = 0
    /\ results = <<>>
    /\ progress = <<>>
    /\ calls = <<>>
    /\ log = <<>>
    /\ inFlight = {}
    /\ pending = NoErr
    /\ aiInstance = FALSE
    /\ error = NoErr
    /\ cancelRequested = FALSE
    /\ clientLog = <<>>
    /\ constructions = 0
    /\ self = 1
    /\ other = NoBatch
    /\ input = "none"
    /\ output = "none"
    /\ decade = "none"
    /\ panel = [file1 |-> FALSE, file2 |-> FALSE, prompt |-> <<>>, isLoading |-> FALSE,
                applied |-> NotApplied]
    /\ viewer = "none"

PanelUnchanged ==
    UNCHANGED <<params, pc, i, results, progress, calls, log, inFlight, pending, aiInstance,
                clientLog, constructions, error, cancelRequested, input, output, decade,
                viewer>>

\* an image is put into or taken out of one of the two uploaders
SetFile ==
    /\ pc = "panel"
    /\ \E present \in BOOLEAN :
          \/ panel' = [panel EXCEPT !.file1 = present]
          \/ panel' = [panel EXCEPT !.file2 = present]
    /\ PanelUnchanged

\* typing into the input
SetPrompt ==
    /\ pc = "panel"
    /\ ~InputDisabled(panel)
    /\ \E text \in Instructions : panel' = [panel EXCEPT !.prompt = text]
    /\ PanelUnchanged

\* a line of the dropdown is clicked
handleSelectPrompt ==
    /\ pc = "panel"
    /\ \E text \in Instructions :
          /\ parsePrompts(text) = <<text>>
          /\ panel' = [panel EXCEPT !.prompt = text]
    /\ PanelUnchanged

\* the parent starts or ends a batch: it re-renders the panel with isLoading
ParentSetsLoading ==
    /\ pc = "panel"
    /\ panel' = [panel EXCEPT !.isLoading = ~@]
    /\ PanelUnchanged

\* a click on the button that is not disabled
ClickApply ==
    /\ pc = "panel"
    /\ ~ApplyDisabled(panel)
    /\ panel' = [panel EXCEPT !.applied = handleApply_Applied(panel)]
    /\ PanelUnchanged

NextPanel ==
    \/ SetFile
    \/ SetPrompt
    \/ handleSelectPrompt
    \/ ParentSetsLoading
    \/ ClickApply

SpecPanel == InitPanel /\ [][NextPanel]_vars

\* C26: the fusion panel starts a batch only for a valid request:
\* onApplyFusion is called only with one or two source images and a
\* non-empty instruction in the panel, the instruction it is given
\* (what extractActualPrompt leaves after the first colon) is not empty
\* either, and it is never called while isLoading is true.
C26_OnlyValidRequests ==
    (pc = "panel" /\ panel.applied.called) =>
        /\ panel.applied.sourceFiles \in 1..2
        /\ \E k \in 1..Len(panel.applied.typed) : panel.applied.typed[k] # " "
        /\ panel.applied.prompt # <<>>
        /\ ~panel.applied.isLoading

\* the rest of the claim
C26_ExceptEmptyAfterColon ==
    (pc = "panel" /\ panel.applied.called) =>
        /\ panel.applied.sourceFiles \in 1..2
        /\ \E k \in 1..Len(panel.applied.typed) : panel.applied.typed[k] # " "
        /\ ~panel.applied.isLoading

\* the positions of the log at which onProgress was called
ProgressEvents == {p \in 1..Len(log) : log[p].type = "progress"}

\* the p-th call of onProgress, as a position of the log
NthProgressEvent(n) ==
    CHOOSE p \in ProgressEvents : Cardinality({q \in ProgressEvents : q <= p}) = n

\* C27: the progress events of a batch are ordered by call index: from one
\* event to the next currentIndex grows, it lies in 1..count, total is
\* count in each event, and the event of index i is emitted before the
\* transform call of index i+1 starts.
C27_ProgressOrdered ==
    /\ \A p \in 1..Len(progress) :
          /\ progress[p].current \in 1..count
          /\ progress[p].total = count
    /\ \A p, q \in 1..Len(progress) : p < q => progress[p].current < progress[q].current
    /\ Cardinality(ProgressEvents) = Len(progress)
    /\ \A n \in 1..Len(progress) : log[NthProgressEvent(n)].idx + 1 = progress[n].current
    /\ \A p \in ProgressEvents : \A q \in CallEvents :
          log[q].idx > log[p].idx => p < q
    /\ pc = "calling" => \A p \in 1..Len(progress) : progress[p].current <= i

\* three events, the second of them for a failed call
C27_Witness ==
    /\ pc = "resolved"
    /\ Len(progress) = 3
    /\ RenderResult(progress[2].url).isError
    /\ ~RenderResult(progress[3].url).isError

\* the same image with the same marking of success or failure
SameMarking(a, b) ==
    /\ RenderResult(a).isError = RenderResult(b).isError
    /\ RenderResult(a).imageUrl = RenderResult(b).imageUrl

C28_EventMatchesList ==
    Len(progress') = Len(progress) + 1 =>
        /\ Len(results') = progress'[Len(progress')].current
        /\ SameMarking(results'[Len(results')].url, progress'[Len(progress')].url)

C28_UiListMatches ==
    (hasOnProgress /\ pc = "resolved") =>
        /\ Len(progress) = Len(results)
        /\ \A p \in 1..Len(results) : SameMarking(results[p].url, progress[p].url)

\* C28: whenever a progress event with currentIndex = c is emitted the
\* result list of the batch holds exactly c items, the last of them the one
\* the event reports, so that a list to which each reported URI is appended
\* ends as long as the returned list and with the same marking of success
\* or failure at each position.
C28_ProgressMirrorsResults ==
    /\ [][C28_EventMatchesList]_vars
    /\ []C28_UiListMatches

\* the part of the claim about the list of the UI
C28_ExceptSkippedFailures ==
    /\ [][impl # FusedService => C28_EventMatchesList]_vars
    /\ []C28_UiListMatches

(***************************************************************************)
(* The script of the pop-up viewer: images.length (n), currentIndex,       *)
(* isZoomed, ratings, translateX and translateY; op is the handler that    *)
(* ran last.                                                               *)
(***************************************************************************)
MaxImages == 3

Ratings == {3, 4, 5}

\* what the wheel handler can leave in translateX and translateY
Pans == {-30, 0, 30}

\* an updateDisplay that leaves the zoom and the translation as they are
updateDisplay_KeepsZoom(v) == v

updateDisplay(v) == [v EXCEPT !.isZoomed = FALSE, !.translateX = 0, !.translateY = 0]

InitViewer ==
    /\ impl = FusedService
    /\ count = 1
    /\ variationIntensity = "moderate"
    /\ hasOnProgress = FALSE
    /\ apiKey = "valid"
    /\ randoms = {0}
    /\ pc = "viewer"
    /\ i = 0
    /\ results = <<>>
    /\ progress = <<>>
    /\ calls = <<>>
    /\ log = <<>>
    /\ inFlight = {}
    /\ pending = NoErr
    /\ aiInstance = FALSE
    /\ error = NoErr
    /\ cancelRequested = FALSE
    /\ clientLog = <<>>
    /\ constructions = 0
    /\ self = 1
    /\ other = NoBatch
    /\ input = "none"
    /\ output = "none"
    /\ decade = "none"
    /\ panel = "none"
    /\ \E n \in 1..MaxImages : \E index \in 0..(n - 1) :
          viewer = updateDisplay([n |-> n, currentIndex |-> index, isZoomed |-> FALSE,
                                  ratings |-> [k \in 0..(n - 1) |-> 5],
                                  translateX |-> 0, translateY |-> 0, op |-> "init"])

ViewerUnchanged ==
    UNCHANGED <<params, pc, i, results, progress, calls, log, inFlight, pending, aiInstance,
                clientLog, constructions, error, cancelRequested, input, output, decade,
                panel>>

prevImage ==
    /\ pc = "viewer"
    /\ viewer' = IF viewer.currentIndex > 0
                 THEN updateDisplay([viewer EXCEPT !.currentIndex = @ - 1, !.op = "prevImage"])
                 ELSE viewer
    /\ ViewerUnchanged

nextImage ==
    /\ pc = "viewer"
    /\ viewer' = IF viewer.currentIndex < viewer.n - 1
                 THEN updateDisplay([viewer EXCEPT !.currentIndex = @ + 1, !.op = "nextImage"])
                 ELSE viewer
    /\ ViewerUnchanged

\* indicator.onclick of the k-th indicator
IndicatorClick ==
    /\ pc = "viewer"
    /\ \E k \in 0..(viewer.n - 1) :
          viewer' = updateDisplay([viewer EXCEPT !.currentIndex = k, !.op = "indicator"])
    /\ ViewerUnchanged

toggleZoom ==
    /\ pc = "viewer"
    /\ viewer' = IF viewer.isZoomed
                 THEN [viewer EXCEPT !.isZoomed = FALSE, !.translateX = 0, !.translateY = 0,
                                     !.op = "toggleZoom"]
                 ELSE [viewer EXCEPT !.isZoomed = TRUE, !.translateX = 0, !.translateY = -20,
                                     !.op = "toggleZoom"]
    /\ ViewerUnchanged

\* one of the three rating buttons
setRating ==
    /\ pc = "viewer"
    /\ \E rating \in Ratings :
          viewer' = [viewer EXCEPT !.ratings[viewer.currentIndex] = rating, !.op = "setRating"]
    /\ ViewerUnchanged

\* the wheel listener: it pans the zoomed image
Wheel ==
    /\ pc = "viewer"
    /\ viewer.isZoomed
    /\ \E x \in Pans, y \in Pans :
          viewer' = [viewer EXCEPT !.translateX = x, !.translateY = y, !.op = "wheel"]
    /\ ViewerUnchanged

NextViewer ==
    \/ prevImage
    \/ nextImage
    \/ IndicatorClick
    \/ toggleZoom
    \/ setRating
    \/ Wheel

SpecViewer == InitViewer /\ [][NextViewer]_vars

C29_InRange ==
    pc = "viewer" =>
        /\ viewer.currentIndex \in 0..(viewer.n - 1)
        /\ DOMAIN viewer.ratings = 0..(viewer.n - 1)
        /\ \A k \in 0..(viewer.n - 1) : viewer.ratings[k] \in {3, 4, 5}
        /\ viewer.op = "init" => \A k \in 0..(viewer.n - 1) : viewer.ratings[k] = 5

C29_Step ==
    /\ \A k \in 0..(viewer.n - 1) :
          viewer'.ratings[k] # viewer.ratings[k] =>
              /\ viewer'.op = "setRating"
              /\ k = viewer.currentIndex
              /\ k = viewer'.currentIndex
    /\ (viewer'.currentIndex # viewer.currentIndex
            \/ viewer'.op \in {"prevImage", "nextImage", "indicator"}) =>
          /\ ~viewer'.isZoomed
          /\ viewer'.translateX = 0
          /\ viewer'.translateY = 0

\* C29: in the pop-up viewer, after any sequence of prevImage, nextImage,
\* clicks on an indicator, toggleZoom and setRating, currentIndex is within
\* 0..images.length-1, every image has a rating in {3,4,5}, 5 at first,
\* that only setRating on the current image changes, and every navigation
\* to an image leaves isZoomed false and the translation at (0,0).
C29_ViewerState ==
    /\ []C29_InRange
    /\ [][C29_Step]_vars

\* the last image reached by nextImage, the earlier ones rated 3 and 4
C29_Witness ==
    /\ pc = "viewer"
    /\ viewer.n = 3
    /\ viewer.currentIndex = 2
    /\ viewer.op = "nextImage"
    /\ viewer.ratings[0] = 3
    /\ viewer.ratings[1] = 4
    /\ viewer.ratings[2] = 5

(***************************************************************************)
(* handleApiError on its own: a thrown value and an action text (input),   *)
(* and what the call does (output).                                        *)
(***************************************************************************)
MaxErrorTextLen == 2

ErrorTexts ==
    UNION {[1..n -> {"quota", "API key not valid", "xhr error"}] : n \in 0..MaxErrorTextLen}
        \cup {<<"{error:{message:API key not valid}}">>,
              <<"{error:{message:quota exceeded}}">>,
              <<"{}">>,
              <<"{status:", "API key not valid", "}">>,
              <<"{status:", "xhr error", "}">>}

\* null or undefined, thrown or rejected with
Nullish == [handled |-> FALSE, hasMessage |-> FALSE, message |-> <<>>, nullish |-> TRUE]

ThrownValues == {Err(text) : text \in ErrorTexts} \cup {NoMessageErr, Nullish}

\* the call handleApiError(e, action): reading error.message of null or
\* undefined throws before anything else runs
CallHandleApiError(e, action) ==
    IF "nullish" \in DOMAIN e THEN [threw |-> TRUE, value |-> TypeErr]
    ELSE [threw |-> FALSE, value |-> handleApiError(e, action)]

InitHandle ==
    /\ impl = FusedService
    /\ count = 1
    /\ variationIntensity = "moderate"
    /\ hasOnProgress = FALSE
    /\ apiKey = "valid"
    /\ randoms = {0}
    /\ pc = "handle"
    /\ i = 0
    /\ results = <<>>
    /\ progress = <<>>
    /\ calls = <<>>
    /\ log = <<>>
    /\ inFlight = {}
    /\ pending = NoErr
    /\ aiInstance = FALSE
    /\ error = NoErr
    /\ cancelRequested = FALSE
    /\ clientLog = <<>>
    /\ constructions = 0
    /\ self = 1
    /\ other = NoBatch
    /\ \E e \in ThrownValues, action \in {"fuse", "batch fuse", "generate"} : input = [error |-> e, action |-> action]
    /\ output = "none"
    /\ decade = "none"
    /\ panel = "none"
    /\ viewer = "none"

Handle ==
    /\ pc = "handle"
    /\ output' = CallHandleApiError(input.error, input.action)
    /\ pc' = "handled"
    /\ UNCHANGED <<params, i, results, progress, calls, log, inFlight, pending, aiInstance,
                   clientLog, constructions, error, cancelRequested, input, decade, panel,
                   viewer>>

SpecHandle == InitHandle /\ [][Handle]_vars

\* the text of the thrown value, <<>> when it has none
TextOf(e) == IF e.hasMessage THEN e.message ELSE <<>>

EndsWith(s, t) == Len(t) <= Len(s) /\ SubSeq(s, Len(s) - Len(t) + 1, Len(s)) = t

C30_Mapping ==
    LET text == TextOf(input.error)
        message == output.value.message
    IN IF JsonErrorMessage(text) # <<>>
       THEN message = <<"error during", input.action, ":">> \o JsonErrorMessage(text)
       ELSE IF Includes(text, "API key not valid")
       THEN message = <<"system API key invalid">>
       ELSE IF Includes(text, "xhr error")
       THEN message = <<"communication with AI service failed">>
       ELSE /\ Includes(message, input.action)
            /\ EndsWith(message, text)

\* C30: handleApiError never throws and always returns an Error with a
\* non-empty message, whether the thrown value has a message or not: the
\* message of the backend is preferred when the text parses as JSON with
\* error.message; otherwise a text with 'API key not valid' gives the
\* invalid-key message and a text with 'xhr error' the
\* communication-failure message; otherwise the message names the action
\* and the original text.
C30_AlwaysAnError ==
    pc = "handled" =>
        /\ ~output.threw
        /\ output.value.handled
        /\ output.value.hasMessage
        /\ output.value.message # <<>>
        /\ C30_Mapping

\* the same for thrown values other than null and undefined whose text does
\* not parse as JSON without error.message
C30_ExceptNullishAndOtherJson ==
    (/\ pc = "handled"
     /\ "nullish" \notin DOMAIN input.error
     /\ ~(IsJson(TextOf(input.error)) /\ JsonErrorMessage(TextOf(input.error)) = <<>>)) =>
        /\ ~output.threw
        /\ output.value.handled
        /\ output.value.hasMessage
        /\ output.value.message # <<>>
        /\ C30_Mapping

====
